---- MODULE Spec2Model ----
(***************************************************************************)
(* State-machine model of the programs of the repository: the             *)
(* verification-oracle, the identity-registry (its instructions, and       *)
(* update_verification_status as the oracle calls it), the                 *)
(* staking-manager, the reputation-engine and the credential-manager.      *)
(*                                                                         *)
(* Every instruction is one atomic transaction: it either returns Ok and   *)
(* commits all its writes, or returns an error and commits none.  An       *)
(* instruction is modelled as an operator from the accounts (a record      *)
(* "st") and its inputs to [err, st]; the action applies the result and    *)
(* records the instruction and its outcome, in "last" for the oracle       *)
(* program and in "outcome" for the others.                                *)
(*                                                                         *)
(* Of the lamports of the oracle program only the receipts of the fee      *)
(* vault are modelled (fee_vault); requesters can pay the fee.  Not        *)
(* modelled there: hashes, bump seeds and the timestamps no instruction    *)
(* reads (registered_at, last_active, created_at, responded_at,            *)
(* last_updated), and the options of update_config other than              *)
(* required_confirmations, which are passed as None.  The checked_add of   *)
(* a u32 or u64 counter cannot overflow within the bounds and has no       *)
(* error branch here; the u8 counters keep theirs.                         *)
(*                                                                         *)
(* The staking pool's balances are modelled as the instructions write      *)
(* them: a debit of the vault beyond its balance fails the instruction.    *)
(* Rent, and the runtime's rule that only the program owning an account    *)
(* may debit it, are not modelled.  The u128 reward arithmetic is exact,   *)
(* on decimal digit sequences; the variable "calc" holds one reward        *)
(* computation on values of the full width of u64 and u128, where the      *)
(* checked operations fail and the casts truncate.                         *)
(***************************************************************************)
EXTENDS Integers, Sequences, FiniteSets, TLC

VARIABLES clock, config, oracle_nodes, requests, responses, verification_bitmap,
          fee_vault, last,
          pool, stake_accounts, slash_records, lamports, ledger,
          reputation_config, reputation_accounts, credential_config, credentials,
          identity_accounts, calc, outcome

\* the accounts of each program
oracleVars ==
    <<config, oracle_nodes, requests, responses, verification_bitmap, fee_vault>>

stakingVars == <<pool, stake_accounts, slash_records, lamports, ledger>>

reputationVars == <<reputation_config, reputation_accounts>>

credentialVars == <<credential_config, credentials>>

\* the identity accounts of the identity-registry; their verification bitmaps
\* are the variable verification_bitmap
identityVars == <<identity_accounts>>

\* one reward computation on values of full width: its inputs and its results
calcVars == <<calc>>

vars ==
    <<clock, last, outcome, oracleVars, stakingVars, reputationVars, credentialVars,
      identityVars, calcVars>>

(***************************************************************************)
(* Program constants                                                       *)
(***************************************************************************)
MAX_ORACLES == 10

SLASH_THRESHOLD == 3

MAX_VERIFICATION_TYPE == 64

U8_MAX == 255

\* REWARD_PRECISION = 10^REWARD_PRECISION_DIGITS
REWARD_PRECISION_DIGITS == 12

SECONDS_PER_YEAR == 31536000

BPS_DENOMINATOR == 10000

\* reputation-engine: the length of a decay period, 30 * 24 * 60 * 60
DECAY_PERIOD_SECONDS == 2592000

\* the range of a reputation score
MIN_SCORE == 0

MAX_SCORE == 1000

\* identity-registry: the most recovery keys of an identity, and the
\* reputation score create_identity sets
MAX_RECOVERY_KEYS == 5

INITIAL_REPUTATION_SCORE == 500

(***************************************************************************)
(* Bounds of the model                                                     *)
(***************************************************************************)
NumOracles == 3

NumLifecycleOracles == 2

ExtraOracles == 1

NumPreVoted == 9

MaxTime == 2

MaxQuorum == 3

MaxSlashCount == 4

Timeout == 1

\* oracle: the verification_fee the config is initialised with
VerificationFee == 1

\* staking: the clock ticks TicksPerYear times a year, MaxStakeTicks times
TicksPerYear == 2

MaxStakeTicks == 2

MaxStakeSlashes == 1

\* staking: in the specification of repeated slashes an account is slashed
\* at most MaxRepeatedSlashes times
MaxRepeatedSlashes == 2

WalletLamports == 10

StartTime == 1

TickSeconds == SECONDS_PER_YEAR \div TicksPerYear

\* reputation: scores are explored up to ScoreCap
ScoreCap == 1100

\* credentials: the clock advances MaxCredentialDays times, a day each
MaxCredentialDays == 2

\* identities: recovery keys are added while an identity has at most
\* MaxRecoveryKeysAdded of them
MaxRecoveryKeysAdded == 0

DaySeconds == 24 * 60 * 60

(***************************************************************************)
(* Keys                                                                    *)
(***************************************************************************)
\* every oracle authority key of the model; Oracles are those the main
\* specification lets act
OracleKeys == 1..(MAX_ORACLES + ExtraOracles)

Oracles == 1..NumOracles

Identities == {"idA", "idB"}

VTypes == {0}

\* the verification_type inputs tried by request_verification: the valid ones
\* and the first invalid one
VTypeInputs == VTypes \cup {MAX_VERIFICATION_TYPE}

\* a request account is the PDA of (identity, verification_type)
RequestKeys == Identities \X VTypes

\* the requests the specifications create
MainRequests == {<<"idA", 0>>}

\* signers: the admin of the oracle config, and some other wallet
Admin == "admin"

Callers == {"admin", "other"}

\* the oracle program's config PDA, which signs the CPI of finalize
OracleConfigPda == "oracle_config_pda"

SignerKeys == {"oracle_config_pda", "other"}

\* identity-registry GlobalConfig.verification_oracle, set once by initialize_config
IdentityVerificationOracle == OracleConfigPda

(***************************************************************************)
(* Account records.  An account that was never created holds init = FALSE  *)
(* and zeroed fields.                                                      *)
(***************************************************************************)
NoOracleNode ==
    [init |-> FALSE, status |-> "Inactive", verifications_submitted |-> 0,
     successful_verifications |-> 0, failed_verifications |-> 0, slash_count |-> 0]

NoRequest ==
    [init |-> FALSE, identity |-> "idA", verification_type |-> 0, status |-> "Pending",
     deadline |-> 0, confirmations |-> 0, rejections |-> 0,
     responded_oracles |-> <<>>, result |-> "None"]

\* no oracle, and no request
NoKey == 0

NoRequestKey == <<"none", 0>>

NoResponse ==
    [init |-> FALSE, request |-> NoRequestKey, oracle |-> NoKey, verified |-> FALSE]

\* the accounts an instruction reads and writes
St ==
    [config |-> config, oracle_nodes |-> oracle_nodes, requests |-> requests,
     responses |-> responses, verification_bitmap |-> verification_bitmap,
     fee_vault |-> fee_vault]

Ok(st) == [err |-> "Ok", st |-> st]

Fail(st, e) == [err |-> e, st |-> st]

\* a failed instruction whose writes stay
AbortKeepingWrites(st, written, e) == [err |-> e, st |-> written]

\* the runtime discards every write of an instruction that returns an error
\* or panics: "written" is what the instruction had written when it failed
Abort(st, written, e) == [err |-> e, st |-> st]

\* Vec::contains
Contains(seq, x) == \E i \in 1..Len(seq) : seq[i] = x

(***************************************************************************)
(* identity-registry: update_verification_status, reached only by CPI      *)
(***************************************************************************)
\* bitmap |= 1 << t  /  bitmap &= !(1 << t), the bitmap held as the set of set bits
SetVerificationBit(bitmap, t, verified) ==
    IF verified THEN bitmap \cup {t} ELSE bitmap \ {t}

update_verification_status(st, identity, oracle, verification_type, verified) ==
    IF oracle # IdentityVerificationOracle THEN Fail(st, "UnauthorizedOracle")
    ELSE IF ~(verification_type < MAX_VERIFICATION_TYPE) THEN Fail(st, "InvalidVerificationType")
    ELSE Ok([st EXCEPT !.verification_bitmap[identity] =
                SetVerificationBit(@, verification_type, verified)])

(***************************************************************************)
(* verification-oracle: oracle nodes                                       *)
(***************************************************************************)
\* #[account(init)]: the account must not exist yet
InitConstraint(exists) == IF exists THEN "AccountAlreadyInUse" ELSE "Ok"

\* Account<'info, T>: the account must exist
AccountConstraint(exists) == IF exists THEN "Ok" ELSE "AccountNotInitialized"

\* has_one = admin
AdminConstraint(caller) == IF caller = Admin THEN "Ok" ELSE "ConstraintHasOne"

\* register_oracle taking an existing node back (init_if_needed)
register_oracle_again(st, authority) ==
    IF st.oracle_nodes[authority].init
    THEN Ok([st EXCEPT !.oracle_nodes[authority].status = "Active",
                       !.config.active_oracle_count = @ + 1])
    ELSE Ok([st EXCEPT
            !.oracle_nodes[authority] =
                [init |-> TRUE, status |-> "Active", verifications_submitted |-> 0,
                 successful_verifications |-> 0, failed_verifications |-> 0,
                 slash_count |-> 0],
            !.config.active_oracle_count = @ + 1])

register_oracle(st, authority) ==
    LET c == InitConstraint(st.oracle_nodes[authority].init) IN
    IF c # "Ok" THEN Fail(st, c)
    ELSE Ok([st EXCEPT
            !.oracle_nodes[authority] =
                [init |-> TRUE, status |-> "Active", verifications_submitted |-> 0,
                 successful_verifications |-> 0, failed_verifications |-> 0,
                 slash_count |-> 0],
            !.config.active_oracle_count = @ + 1])

deregister_oracle(st, authority) ==
    LET c == AccountConstraint(st.oracle_nodes[authority].init) IN
    IF c # "Ok" THEN Fail(st, c)
    ELSE IF st.config.active_oracle_count - 1 < 0 THEN Fail(st, "Overflow")
    ELSE Ok([st EXCEPT
            !.oracle_nodes[authority].status = "Inactive",
            !.config.active_oracle_count = @ - 1])

\* a slash that never deactivates the node
StatusKeptAfterSlash(status, n) == status

\* the status a node has after a slash that brings its slash_count to n
StatusAfterSlash(status, n) == IF n >= SLASH_THRESHOLD THEN "Slashed" ELSE status

slash_oracle(st, caller, oracle) ==
    LET node == st.oracle_nodes[oracle]
        c1 == AccountConstraint(node.init)
        c2 == AdminConstraint(caller)
        n == node.slash_count + 1
    IN
    IF c1 # "Ok" THEN Fail(st, c1)
    ELSE IF c2 # "Ok" THEN Fail(st, c2)
    ELSE IF n > U8_MAX THEN Fail(st, "Overflow")
    ELSE IF n >= SLASH_THRESHOLD /\ st.config.active_oracle_count - 1 < 0
         THEN Fail(st, "Overflow")
    ELSE Ok([st EXCEPT
            !.oracle_nodes[oracle].slash_count = n,
            !.oracle_nodes[oracle].failed_verifications = @ + 1,
            !.oracle_nodes[oracle].status = StatusAfterSlash(@, n),
            !.config.active_oracle_count =
                IF n >= SLASH_THRESHOLD THEN @ - 1 ELSE @])

update_config(st, caller, required_confirmations) ==
    LET c == AdminConstraint(caller) IN
    IF c # "Ok" THEN Fail(st, c)
    ELSE Ok([st EXCEPT !.config.required_confirmations = required_confirmations])

(***************************************************************************)
(* verification-oracle: requests                                           *)
(***************************************************************************)
RequestExists(st, identity, verification_type) ==
    /\ <<identity, verification_type>> \in RequestKeys
    /\ st.requests[<<identity, verification_type>>].init

\* request_verification creating the request account again (init_if_needed)
request_verification_again(st, identity, verification_type, now) ==
    LET c == "Ok" IN
    IF c # "Ok" THEN Fail(st, c)
    ELSE IF ~(verification_type < MAX_VERIFICATION_TYPE)
         THEN Fail(st, "InvalidVerificationType")
    ELSE Ok([st EXCEPT
            !.requests[<<identity, verification_type>>] =
                [init |-> TRUE, identity |-> identity,
                 verification_type |-> verification_type, status |-> "Pending",
                 deadline |-> now + st.config.verification_timeout,
                 confirmations |-> 0, rejections |-> 0,
                 responded_oracles |-> <<>>, result |-> "None"],
            !.fee_vault = @ + st.config.verification_fee,
            !.config.total_verifications = @ + 1])

request_verification(st, identity, verification_type, now) ==
    LET c == InitConstraint(RequestExists(st, identity, verification_type)) IN
    IF c # "Ok" THEN Fail(st, c)
    ELSE IF ~(verification_type < MAX_VERIFICATION_TYPE)
         THEN Fail(st, "InvalidVerificationType")
    ELSE Ok([st EXCEPT
            !.requests[<<identity, verification_type>>] =
                [init |-> TRUE, identity |-> identity,
                 verification_type |-> verification_type, status |-> "Pending",
                 deadline |-> now + st.config.verification_timeout,
                 confirmations |-> 0, rejections |-> 0,
                 responded_oracles |-> <<>>, result |-> "None"],
            !.fee_vault = @ + st.config.verification_fee,
            !.config.total_verifications = @ + 1])

\* the account constraints of SubmitVerification, in the order of its fields
SubmitConstraints(st, authority, rk) ==
    IF ~st.oracle_nodes[authority].init THEN "AccountNotInitialized"
    ELSE IF ~st.requests[rk].init THEN "AccountNotInitialized"
    ELSE InitConstraint(st.responses[rk][authority].init)

\* submit_verification without the MAX_ORACLES check
SubmitChecksNoCapacity(node, request, authority, now) ==
    IF node.status # "Active" THEN "OracleNotActive"
    ELSE IF ~(request.status = "Pending" \/ request.status = "InProgress")
         THEN "RequestNotPending"
    ELSE IF ~(now <= request.deadline) THEN "RequestExpired"
    ELSE IF Contains(request.responded_oracles, authority) THEN "AlreadyResponded"
    ELSE "Ok"

\* submit_verification closing the vote at the deadline itself
SubmitChecksBeforeDeadline(node, request, authority, now) ==
    IF node.status # "Active" THEN "OracleNotActive"
    ELSE IF ~(request.status = "Pending" \/ request.status = "InProgress")
         THEN "RequestNotPending"
    ELSE IF ~(now < request.deadline) THEN "RequestExpired"
    ELSE IF Contains(request.responded_oracles, authority) THEN "AlreadyResponded"
    ELSE IF ~(Len(request.responded_oracles) < MAX_ORACLES) THEN "MaxOraclesReached"
    ELSE "Ok"

\* the require! checks of submit_verification, in order
SubmitChecks(node, request, authority, now) ==
    IF node.status # "Active" THEN "OracleNotActive"
    ELSE IF ~(request.status = "Pending" \/ request.status = "InProgress")
         THEN "RequestNotPending"
    ELSE IF ~(now <= request.deadline) THEN "RequestExpired"
    ELSE IF Contains(request.responded_oracles, authority) THEN "AlreadyResponded"
    ELSE IF ~(Len(request.responded_oracles) < MAX_ORACLES) THEN "MaxOraclesReached"
    ELSE "Ok"

\* an accepted vote counted as a confirmation whatever it says
RecordVoteAsConfirmation(request, authority, verified) ==
    [request EXCEPT
        !.confirmations = @ + 1,
        !.responded_oracles = Append(@, authority),
        !.status = IF @ = "Pending" THEN "InProgress" ELSE @]

\* an accepted vote that leaves the request's status as it was
RecordVoteKeepingStatus(request, authority, verified) ==
    [request EXCEPT
        !.confirmations = IF verified THEN @ + 1 ELSE @,
        !.rejections = IF verified THEN @ ELSE @ + 1,
        !.responded_oracles = Append(@, authority)]

\* the request after an accepted vote
RecordVote(request, authority, verified) ==
    [request EXCEPT
        !.confirmations = IF verified THEN @ + 1 ELSE @,
        !.rejections = IF verified THEN @ ELSE @ + 1,
        !.responded_oracles = Append(@, authority),
        !.status = IF @ = "Pending" THEN "InProgress" ELSE @]

\* submit_verification overwriting the votes recorded before
submit_verification_rewriting(st, authority, rk, verified, now) ==
    LET c == SubmitConstraints(st, authority, rk)
        node == st.oracle_nodes[authority]
        request == st.requests[rk]
        e == SubmitChecks(node, request, authority, now)
    IN
    IF c # "Ok" THEN Fail(st, c)
    ELSE IF e # "Ok" THEN Fail(st, e)
    ELSE IF (IF verified THEN request.confirmations ELSE request.rejections) + 1 > U8_MAX
         THEN Fail(st, "Overflow")
    ELSE Ok([st EXCEPT
            !.responses[rk] =
                [o \in OracleKeys |->
                    IF o = authority
                    THEN [init |-> TRUE, request |-> rk, oracle |-> authority,
                          verified |-> verified]
                    ELSE IF @[o].init THEN [@[o] EXCEPT !.verified = verified]
                    ELSE @[o]],
            !.requests[rk] = RecordVote(@, authority, verified),
            !.oracle_nodes[authority].verifications_submitted = @ + 1])

submit_verification(st, authority, rk, verified, now) ==
    LET c == SubmitConstraints(st, authority, rk)
        node == st.oracle_nodes[authority]
        request == st.requests[rk]
        e == SubmitChecks(node, request, authority, now)
    IN
    IF c # "Ok" THEN Fail(st, c)
    ELSE IF e # "Ok" THEN Fail(st, e)
    ELSE IF (IF verified THEN request.confirmations ELSE request.rejections) + 1 > U8_MAX
         THEN Fail(st, "Overflow")
    ELSE Ok([st EXCEPT
            !.responses[rk][authority] =
                [init |-> TRUE, request |-> rk, oracle |-> authority,
                 verified |-> verified],
            !.requests[rk] = RecordVote(@, authority, verified),
            !.oracle_nodes[authority].verifications_submitted = @ + 1])

\* finalize_verification asking for one response fewer than the quorum
FinalizeChecksOneShort(request, required_confirmations) ==
    IF request.status # "InProgress" THEN "RequestNotPending"
    ELSE IF ~(request.confirmations + request.rejections + 1 >= required_confirmations)
         THEN "InsufficientConfirmations"
    ELSE "Ok"

\* finalize_verification without its status check
FinalizeChecksAnyStatus(request, required_confirmations) ==
    IF ~(request.confirmations + request.rejections >= required_confirmations)
         THEN "InsufficientConfirmations"
    ELSE "Ok"

\* the require! checks of finalize_verification, in order
FinalizeChecks(request, required_confirmations) ==
    IF request.status # "InProgress" THEN "RequestNotPending"
    ELSE IF ~(request.confirmations + request.rejections >= required_confirmations)
         THEN "InsufficientConfirmations"
    ELSE "Ok"

\* a majority that a tie also wins
MajorityOrTie(request) == request.confirmations >= request.rejections

\* the result of the vote: a strict majority of confirmations
Majority(request) == request.confirmations > request.rejections

\* finalize_verification pushing to the identity whatever the vote was
finalize_verification_always_pushes(st, rk, identity, oracle_signer) ==
    LET c == AccountConstraint(st.requests[rk].init)
        request == st.requests[rk]
        e == FinalizeChecks(request, st.config.required_confirmations)
        verified == Majority(request)
        st1 == [st EXCEPT
                   !.requests[rk].result = IF verified THEN "SomeTrue" ELSE "SomeFalse",
                   !.requests[rk].status = IF verified THEN "Verified" ELSE "Rejected"]
        cpi == update_verification_status(st1, identity, oracle_signer,
                                          request.verification_type, TRUE)
    IN
    IF c # "Ok" THEN Fail(st, c)
    ELSE IF e # "Ok" THEN Fail(st, e)
    ELSE IF cpi.err # "Ok" THEN Fail(st, cpi.err)
    ELSE Ok(cpi.st)

finalize_verification(st, rk, identity, oracle_signer) ==
    LET c == AccountConstraint(st.requests[rk].init)
        request == st.requests[rk]
        e == FinalizeChecks(request, st.config.required_confirmations)
        verified == Majority(request)
        st1 == [st EXCEPT
                   !.requests[rk].result = IF verified THEN "SomeTrue" ELSE "SomeFalse",
                   !.requests[rk].status = IF verified THEN "Verified" ELSE "Rejected"]
        cpi == update_verification_status(st1, identity, oracle_signer,
                                          request.verification_type, TRUE)
    IN
    IF c # "Ok" THEN Fail(st, c)
    ELSE IF e # "Ok" THEN Fail(st, e)
    ELSE IF ~verified THEN Ok(st1)
    ELSE IF cpi.err # "Ok" THEN Abort(st, st1, cpi.err)
    ELSE Ok(cpi.st)

\* expire_verification allowed from the deadline on
ExpireChecksAtDeadline(request, now) ==
    IF ~(request.status = "Pending" \/ request.status = "InProgress")
         THEN "AlreadyFinalized"
    ELSE IF ~(now >= request.deadline) THEN "DeadlineNotReached"
    ELSE "Ok"

\* expire_verification without its status check
ExpireChecksAnyStatus(request, now) ==
    IF ~(now > request.deadline) THEN "DeadlineNotReached" ELSE "Ok"

\* expire_verification refusing a request that has votes
ExpireChecksPendingOnly(request, now) ==
    IF ~(request.status = "Pending") THEN "AlreadyFinalized"
    ELSE IF ~(now > request.deadline) THEN "DeadlineNotReached"
    ELSE "Ok"

\* the require! checks of expire_verification, in order
ExpireChecks(request, now) ==
    IF ~(request.status = "Pending" \/ request.status = "InProgress")
         THEN "AlreadyFinalized"
    ELSE IF ~(now > request.deadline) THEN "DeadlineNotReached"
    ELSE "Ok"

expire_verification(st, rk, now) ==
    LET c == AccountConstraint(st.requests[rk].init)
        e == ExpireChecks(st.requests[rk], now)
    IN
    IF c # "Ok" THEN Fail(st, c)
    ELSE IF e # "Ok" THEN Fail(st, e)
    ELSE Ok([st EXCEPT !.requests[rk].status = "Expired",
                       !.requests[rk].result = "None"])

(***************************************************************************)
(* staking-manager: u128 arithmetic.  The reward computation runs in u128  *)
(* (products of about 10^24); a u128 is held as the sequence of its        *)
(* decimal digits, least significant first, without leading zeros.  The    *)
(* u64 operand of a product or quotient is an integer below 2 * 10^8,      *)
(* which every amount and time of the model is.                            *)
(***************************************************************************)
RECURSIVE DecOf(_)
\* n as u128
DecOf(n) == IF n = 0 THEN <<>> ELSE <<n % 10>> \o DecOf(n \div 10)

RECURSIVE DecValue(_)
\* the integer a u128 holds
DecValue(d) == IF d = <<>> THEN 0 ELSE d[1] + 10 * DecValue(Tail(d))

RECURSIVE DecTrim(_)
DecTrim(d) ==
    IF d = <<>> THEN <<>>
    ELSE IF d[Len(d)] = 0 THEN DecTrim(SubSeq(d, 1, Len(d) - 1))
    ELSE d

RECURSIVE DecMulCarry(_, _, _)
DecMulCarry(d, n, carry) ==
    IF d = <<>> THEN DecOf(carry)
    ELSE LET v == d[1] * n + carry
         IN  <<v % 10>> \o DecMulCarry(Tail(d), n, v \div 10)

\* d * n
DecMul(d, n) == IF n = 0 THEN <<>> ELSE DecMulCarry(d, n, 0)

RECURSIVE DecDivRem(_, _)
DecDivRem(d, n) ==
    IF d = <<>> THEN [q |-> <<>>, r |-> 0]
    ELSE LET hi == DecDivRem(Tail(d), n)
             v == hi.r * 10 + d[1]
         IN  [q |-> <<v \div n>> \o hi.q, r |-> v % n]

\* d / n, the integer division of Rust
DecDiv(d, n) == DecTrim(DecDivRem(d, n).q)

\* d * 10^k
DecShiftLeft(d, k) == IF d = <<>> THEN <<>> ELSE [i \in 1..k |-> 0] \o d

\* d / 10^k
DecShiftRight(d, k) == IF Len(d) <= k THEN <<>> ELSE SubSeq(d, k + 1, Len(d))

RECURSIVE DecAddCarry(_, _, _)
DecAddCarry(a, b, carry) ==
    IF a = <<>> /\ b = <<>> THEN DecOf(carry)
    ELSE LET x == IF a = <<>> THEN 0 ELSE a[1]
             y == IF b = <<>> THEN 0 ELSE b[1]
             v == x + y + carry
         IN  <<v % 10>> \o DecAddCarry(IF a = <<>> THEN a ELSE Tail(a),
                                       IF b = <<>> THEN b ELSE Tail(b), v \div 10)

\* a + b
DecAdd(a, b) == DecAddCarry(a, b, 0)

RECURSIVE DecLeqFrom(_, _, _)
DecLeqFrom(a, b, i) ==
    IF i = 0 THEN TRUE
    ELSE IF a[i] # b[i] THEN a[i] < b[i]
    ELSE DecLeqFrom(a, b, i - 1)

\* a <= b
DecLeq(a, b) ==
    IF Len(a) # Len(b) THEN Len(a) < Len(b) ELSE DecLeqFrom(a, b, Len(a))

RECURSIVE DecSubBorrow(_, _, _)
DecSubBorrow(a, b, borrow) ==
    IF a = <<>> THEN <<>>
    ELSE LET y == (IF b = <<>> THEN 0 ELSE b[1]) + borrow
             v == IF a[1] >= y THEN a[1] - y ELSE a[1] + 10 - y
         IN  <<v>> \o DecSubBorrow(Tail(a), IF b = <<>> THEN b ELSE Tail(b),
                                    IF a[1] >= y THEN 0 ELSE 1)

\* a - b, for b <= a
DecSub(a, b) == DecTrim(DecSubBorrow(a, b, 0))

RECURSIVE DecColumn(_, _, _, _)
\* the sum of the a[i] * b[k + 1 - i] for i up to n
DecColumn(a, b, k, n) ==
    IF n = 0 THEN 0
    ELSE DecColumn(a, b, k, n - 1)
         + (IF k + 1 - n >= 1 /\ k + 1 - n <= Len(b) THEN a[n] * b[k + 1 - n] ELSE 0)

RECURSIVE DecCarry(_, _, _)
\* the digits of the columns from the k-th on, with the carry
DecCarry(columns, k, carry) ==
    IF k > Len(columns) THEN DecOf(carry)
    ELSE <<(columns[k] + carry) % 10>>
         \o DecCarry(columns, k + 1, (columns[k] + carry) \div 10)

\* a * b
DecMulDec(a, b) ==
    IF a = <<>> \/ b = <<>> THEN <<>>
    ELSE DecTrim(DecCarry([k \in 1..(Len(a) + Len(b)) |-> DecColumn(a, b, k, Len(a))],
                          1, 0))

\* 2^63 = 9223372036854775808
TWO_POW_63 ==
    <<8, 0, 8, 5, 7, 7, 4, 5, 8, 6, 3, 0, 2, 7, 3, 3, 2, 2, 9>>

\* the first value a u64 cannot hold, 2^64 = 18446744073709551616
U64_LIMIT ==
    <<6, 1, 6, 1, 5, 5, 9, 0, 7, 3, 7, 0, 4, 4, 7, 6, 4, 4, 8, 1>>

\* the first value a u128 cannot hold, 2^128 =
\* 340282366920938463463374607431768211456
U128_LIMIT ==
    <<6, 5, 4, 1, 1, 2, 8, 6, 7, 1, 3, 4, 7, 0, 6, 4, 7, 3, 3, 6,
      4, 3, 6, 4, 8, 3, 9, 0, 2, 9, 6, 6, 3, 2, 8, 2, 0, 4, 3>>

RECURSIVE DecModFrom(_, _, _)
DecModFrom(x, m, k) ==
    IF k < 0 THEN x
    ELSE IF DecLeq(DecShiftLeft(m, k), x)
         THEN DecModFrom(DecSub(x, DecShiftLeft(m, k)), m, k)
    ELSE DecModFrom(x, m, k - 1)

\* x mod m
DecMod(x, m) == DecModFrom(x, m, IF Len(x) > Len(m) THEN Len(x) - Len(m) ELSE 0)

\* "as u64" on a u128: the low 64 bits
AsU64(x) == DecMod(x, U64_LIMIT)

\* checked_mul on u128, checked_add on u64
CheckedMulU128(a, b) ==
    LET v == DecMulDec(a, b) IN
    IF DecLeq(U128_LIMIT, v) THEN [err |-> "Overflow", value |-> <<>>]
    ELSE [err |-> "Ok", value |-> v]

CheckedAddU64(a, b) ==
    LET v == DecAdd(a, b) IN
    IF DecLeq(U64_LIMIT, v) THEN [err |-> "Overflow", value |-> <<>>]
    ELSE [err |-> "Ok", value |-> v]

\* calculate_pending_rewards on values of full width: staked_amount a u64,
\* acc_reward_per_share and reward_debt u128, the result cast with "as u64"
calculate_pending_rewards_wide(staked_amount, acc_reward_per_share, reward_debt) ==
    LET product == CheckedMulU128(staked_amount, acc_reward_per_share)
        acc_reward == DecShiftRight(product.value, REWARD_PRECISION_DIGITS)
        pending == IF DecLeq(reward_debt, acc_reward)
                   THEN DecSub(acc_reward, reward_debt) ELSE <<>>
    IN
    IF staked_amount = <<>> THEN [err |-> "Ok", value |-> <<>>]
    ELSE IF product.err # "Ok" THEN product
    ELSE [err |-> "Ok", value |-> AsU64(pending)]

\* the reward computation not started
NoCalc ==
    [phase |-> "idle", staked_amount |-> <<>>, acc_reward_per_share |-> <<>>,
     reward_debt |-> <<>>, pending_rewards |-> <<>>, err |-> "Ok",
     pending |-> <<>>]

(***************************************************************************)
(* staking-manager: accounts.  lamports holds the balance of each staker's *)
(* wallet and of the pool vault.  Not modelled: rent, bump seeds and       *)
(* stake_account.staked_at, which no instruction reads.  A checked u64 or  *)
(* u128 operation that cannot overflow within the bounds has no error      *)
(* branch here; checked_sub and the u8 slash_count keep theirs.            *)
(***************************************************************************)
Stakers == {"s1", "s2"}

PoolVault == "pool_vault"

PoolAdmin == "pool_admin"

\* StakingPool.verification_oracle, set by initialize_pool
SlashAuthority == "slash_authority"

\* the keys that sign a slash
SlashSigners == {"slash_authority", "other"}

SlashReasons == {"InvalidVerification"}

NoStakeAccount ==
    [init |-> FALSE, owner |-> "none", staked_amount |-> 0, pending_rewards |-> 0,
     reward_debt |-> 0, unstake_requested_at |-> 0, unstake_amount |-> 0,
     total_rewards_claimed |-> 0, slash_count |-> 0]

NoPool ==
    [init |-> FALSE, admin |-> "none", verification_oracle |-> "none",
     total_staked |-> 0, min_stake_amount |-> 0, reward_rate_bps |-> 0,
     unstake_cooldown |-> 0, last_reward_distribution |-> 0,
     acc_reward_per_share |-> <<>>, paused |-> FALSE]

\* the accounts a staking instruction reads and writes
StakeSt ==
    [pool |-> pool, stake_accounts |-> stake_accounts,
     slash_records |-> slash_records, lamports |-> lamports]

\* (staked_amount as u128).checked_mul(acc_reward_per_share)? / REWARD_PRECISION
AccumulatedReward(staked_amount, acc_reward_per_share) ==
    DecValue(DecShiftRight(DecMul(acc_reward_per_share, staked_amount),
                           REWARD_PRECISION_DIGITS))

initialize_pool(admin, min_stake_amount, reward_rate_bps, unstake_cooldown, verification_oracle, now) ==
    [init |-> TRUE, admin |-> admin, verification_oracle |-> verification_oracle,
     total_staked |-> 0, min_stake_amount |-> min_stake_amount,
     reward_rate_bps |-> reward_rate_bps, unstake_cooldown |-> unstake_cooldown,
     last_reward_distribution |-> now, acc_reward_per_share |-> <<>>,
     paused |-> FALSE]

\* the reward of an interval, with a year of 360 days
IntervalReward360(p, time_elapsed) ==
    DecDiv(DecDiv(DecMul(DecMul(DecOf(time_elapsed), p.reward_rate_bps),
                         p.total_staked),
                  360 * 24 * 60 * 60),
           BPS_DENOMINATOR)

\* the reward of an interval: time_elapsed * reward_rate_bps * total_staked
\* / seconds_per_year / 10000
IntervalReward(p, time_elapsed) ==
    DecDiv(DecDiv(DecMul(DecMul(DecOf(time_elapsed), p.reward_rate_bps),
                         p.total_staked),
                  SECONDS_PER_YEAR),
           BPS_DENOMINATOR)

\* update_pool_rewards leaving an empty pool as it is
update_pool_rewards_idle_when_empty(p, current_time) ==
    IF p.total_staked = 0 THEN p
    ELSE LET time_elapsed == current_time - p.last_reward_distribution
             reward == IntervalReward(p, time_elapsed)
             reward_per_share ==
                 DecDiv(DecShiftLeft(reward, REWARD_PRECISION_DIGITS), p.total_staked)
         IN  IF time_elapsed > 0
             THEN [p EXCEPT !.acc_reward_per_share = DecAdd(@, reward_per_share),
                            !.last_reward_distribution = current_time]
             ELSE p

update_pool_rewards(p, current_time) ==
    IF p.total_staked = 0 THEN [p EXCEPT !.last_reward_distribution = current_time]
    ELSE LET time_elapsed == current_time - p.last_reward_distribution
             reward == IntervalReward(p, time_elapsed)
             reward_per_share ==
                 DecDiv(DecShiftLeft(reward, REWARD_PRECISION_DIGITS), p.total_staked)
         IN  IF time_elapsed > 0
             THEN [p EXCEPT !.acc_reward_per_share = DecAdd(@, reward_per_share),
                            !.last_reward_distribution = current_time]
             ELSE p

calculate_pending_rewards(stake_account, p) ==
    IF stake_account.staked_amount = 0 THEN 0
    ELSE LET acc_reward == AccumulatedReward(stake_account.staked_amount,
                                             p.acc_reward_per_share)
         IN  IF acc_reward >= stake_account.reward_debt
             THEN acc_reward - stake_account.reward_debt
             ELSE 0

(***************************************************************************)
(* staking-manager: instructions                                           *)
(***************************************************************************)
\* system_program::transfer, and the direct debit and credit of lamports: a
\* debit beyond the balance fails the instruction
CanPay(st, from, amount) == st.lamports[from] >= amount

Transfer(st, from, to, amount) ==
    [st EXCEPT !.lamports[from] = @ - amount, !.lamports[to] = @ + amount]

\* stake writing reward_debt from the amount staked before the deposit
StakeRecordStaleDebt(stake_account, p, owner, amount) ==
    [stake_account EXCEPT
        !.init = TRUE,
        !.owner = owner,
        !.staked_amount = @ + amount,
        !.reward_debt = AccumulatedReward(stake_account.staked_amount,
                                          p.acc_reward_per_share)]

\* "Update stake account" of stake
StakeRecord(stake_account, p, owner, amount) ==
    [stake_account EXCEPT
        !.init = TRUE,
        !.owner = owner,
        !.staked_amount = @ + amount,
        !.reward_debt = AccumulatedReward(stake_account.staked_amount + amount,
                                          p.acc_reward_per_share)]

\* stake reading the stake account before update_pool_rewards
StakeSettleStale(stake_account, p, now) ==
    [pool |-> update_pool_rewards(p, now),
     stake_account |->
        IF stake_account.staked_amount > 0
        THEN [stake_account EXCEPT
                 !.pending_rewards = @ + calculate_pending_rewards(stake_account, p)]
        ELSE stake_account]

\* update_pool_rewards, then the pending rewards of an account that already
\* stakes are added to its pending_rewards
StakeSettle(stake_account, p, now) ==
    LET p1 == update_pool_rewards(p, now) IN
    [pool |-> p1,
     stake_account |->
        IF stake_account.staked_amount > 0
        THEN [stake_account EXCEPT
                 !.pending_rewards = @ + calculate_pending_rewards(stake_account, p1)]
        ELSE stake_account]

\* stake without the check of the paused flag
stake_while_paused(st, owner, amount, now) ==
    LET p == st.pool
        settled == StakeSettle(st.stake_accounts[owner], p, now)
        st1 == [st EXCEPT !.pool = settled.pool,
                          !.stake_accounts[owner] = settled.stake_account]
        st2 == Transfer(st1, owner, PoolVault, amount)
    IN
    IF ~(amount >= p.min_stake_amount) THEN Fail(st, "InsufficientStakeAmount")
    ELSE IF ~CanPay(st1, owner, amount) THEN Abort(st, st1, "InsufficientFunds")
    ELSE Ok([st2 EXCEPT
                !.stake_accounts[owner] = StakeRecord(@, settled.pool, owner, amount),
                !.pool.total_staked = @ + amount])

stake(st, owner, amount, now) ==
    LET p == st.pool
        settled == StakeSettle(st.stake_accounts[owner], p, now)
        st1 == [st EXCEPT !.pool = settled.pool,
                          !.stake_accounts[owner] = settled.stake_account]
        st2 == Transfer(st1, owner, PoolVault, amount)
    IN
    IF p.paused THEN Fail(st, "PoolPaused")
    ELSE IF ~(amount >= p.min_stake_amount) THEN Fail(st, "InsufficientStakeAmount")
    ELSE IF ~CanPay(st1, owner, amount) THEN Abort(st, st1, "InsufficientFunds")
    ELSE Ok([st2 EXCEPT
                !.stake_accounts[owner] = StakeRecord(@, settled.pool, owner, amount),
                !.pool.total_staked = @ + amount])

\* request_unstake taking the amount out of the stake at once
request_unstake_reserving(st, owner, amount, now) ==
    LET c == AccountConstraint(st.stake_accounts[owner].init)
        stake_account == st.stake_accounts[owner]
    IN
    IF c # "Ok" THEN Fail(st, c)
    ELSE IF st.pool.paused THEN Fail(st, "PoolPaused")
    ELSE IF stake_account.unstake_requested_at # 0 THEN Fail(st, "UnstakeAlreadyRequested")
    ELSE IF ~(amount <= stake_account.staked_amount) THEN Fail(st, "ExcessiveUnstakeAmount")
    ELSE IF ~(amount > 0) THEN Fail(st, "InsufficientStakedBalance")
    ELSE Ok([st EXCEPT !.stake_accounts[owner].staked_amount = @ - amount,
                       !.stake_accounts[owner].unstake_requested_at = now,
                       !.stake_accounts[owner].unstake_amount = amount])

request_unstake(st, owner, amount, now) ==
    LET c == AccountConstraint(st.stake_accounts[owner].init)
        stake_account == st.stake_accounts[owner]
    IN
    IF c # "Ok" THEN Fail(st, c)
    ELSE IF st.pool.paused THEN Fail(st, "PoolPaused")
    ELSE IF stake_account.unstake_requested_at # 0 THEN Fail(st, "UnstakeAlreadyRequested")
    ELSE IF ~(amount <= stake_account.staked_amount) THEN Fail(st, "ExcessiveUnstakeAmount")
    ELSE IF ~(amount > 0) THEN Fail(st, "InsufficientStakedBalance")
    ELSE Ok([st EXCEPT !.stake_accounts[owner].unstake_requested_at = now,
                       !.stake_accounts[owner].unstake_amount = amount])

\* the require! checks of complete_unstake, in order
UnstakeChecks(stake_account, p, now) ==
    IF p.paused THEN "PoolPaused"
    ELSE IF ~(stake_account.unstake_requested_at > 0) THEN "NoPendingUnstake"
    ELSE IF ~(now >= stake_account.unstake_requested_at + p.unstake_cooldown)
         THEN "CooldownNotElapsed"
    ELSE "Ok"

complete_unstake(st, owner, now) ==
    LET c == AccountConstraint(st.stake_accounts[owner].init)
        stake_account == st.stake_accounts[owner]
        e == UnstakeChecks(stake_account, st.pool, now)
        unstake_amount == stake_account.unstake_amount
        p1 == update_pool_rewards(st.pool, now)
        pending == calculate_pending_rewards(stake_account, p1)
        st1 == [st EXCEPT !.pool = p1,
                          !.stake_accounts[owner].pending_rewards = @ + pending]
        st2 == Transfer(st1, PoolVault, owner, unstake_amount)
        st3 == [st2 EXCEPT
                   !.stake_accounts[owner].staked_amount = @ - unstake_amount,
                   !.stake_accounts[owner].unstake_requested_at = 0,
                   !.stake_accounts[owner].unstake_amount = 0,
                   !.stake_accounts[owner].reward_debt =
                       AccumulatedReward(stake_account.staked_amount - unstake_amount,
                                         p1.acc_reward_per_share)]
    IN
    IF c # "Ok" THEN Fail(st, c)
    ELSE IF e # "Ok" THEN Fail(st, e)
    ELSE IF ~CanPay(st1, PoolVault, unstake_amount)
         THEN Abort(st, st1, "ProgramFailedToComplete")
    ELSE IF stake_account.staked_amount < unstake_amount
         THEN Abort(st, st2, "Overflow")
    ELSE IF p1.total_staked < unstake_amount THEN Abort(st, st3, "Overflow")
    ELSE Ok([st3 EXCEPT !.pool.total_staked = @ - unstake_amount])

claim_rewards(st, owner, now) ==
    LET c == AccountConstraint(st.stake_accounts[owner].init)
        stake_account == st.stake_accounts[owner]
        p1 == update_pool_rewards(st.pool, now)
        pending == calculate_pending_rewards(stake_account, p1)
        total_rewards == stake_account.pending_rewards + pending
        st1 == [st EXCEPT !.pool = p1]
        st2 == Transfer(st1, PoolVault, owner, total_rewards)
    IN
    IF c # "Ok" THEN Fail(st, c)
    ELSE IF st.pool.paused THEN Fail(st, "PoolPaused")
    ELSE IF ~(total_rewards > 0) THEN Abort(st, st1, "NoRewardsAvailable")
    ELSE IF ~CanPay(st1, PoolVault, total_rewards)
         THEN Abort(st, st1, "ProgramFailedToComplete")
    ELSE Ok([st2 EXCEPT
                !.stake_accounts[owner].pending_rewards = 0,
                !.stake_accounts[owner].reward_debt =
                    AccumulatedReward(stake_account.staked_amount,
                                      p1.acc_reward_per_share),
                !.stake_accounts[owner].total_rewards_claimed = @ + total_rewards])

\* the SlashRecord account of a stake account's next slash: its PDA is
\* derived from the staker and the account's slash_count
SlashRecordExists(st, staker, index) ==
    \E r \in st.slash_records : r.staker = staker /\ r.index = index

\* slash open to any signer
SlashChecksAnySigner(stake_account, p, signer, amount) ==
    IF ~(amount > 0) THEN "InvalidSlashAmount"
    ELSE IF ~(amount <= stake_account.staked_amount) THEN "InvalidSlashAmount"
    ELSE "Ok"

\* the require! checks of slash, in order
SlashChecks(stake_account, p, signer, amount) ==
    IF signer # p.verification_oracle THEN "UnauthorizedSlash"
    ELSE IF ~(amount > 0) THEN "InvalidSlashAmount"
    ELSE IF ~(amount <= stake_account.staked_amount) THEN "InvalidSlashAmount"
    ELSE "Ok"

\* slash keeping one record per staker, written again at every slash
slash_overwriting_record(st, signer, staker, amount, reason, now) ==
    LET stake_account == st.stake_accounts[staker]
        c1 == AccountConstraint(stake_account.init)
        c2 == "Ok"
        e == SlashChecks(stake_account, st.pool, signer, amount)
        p1 == update_pool_rewards(st.pool, now)
        st1 == [st EXCEPT !.pool = p1,
                          !.stake_accounts[staker].staked_amount = @ - amount]
        st2 == [st1 EXCEPT
                   !.stake_accounts[staker].slash_count = @ + 1,
                   !.stake_accounts[staker].reward_debt =
                       AccumulatedReward(stake_account.staked_amount - amount,
                                         p1.acc_reward_per_share)]
        record == [staker |-> stake_account.owner, index |-> 0,
                   amount |-> amount, reason |-> reason, timestamp |-> now,
                   slashed_by |-> signer]
    IN
    IF c1 # "Ok" THEN Fail(st, c1)
    ELSE IF c2 # "Ok" THEN Fail(st, c2)
    ELSE IF e # "Ok" THEN Fail(st, e)
    ELSE IF stake_account.slash_count + 1 > U8_MAX THEN Abort(st, st1, "Overflow")
    ELSE IF p1.total_staked < amount THEN Abort(st, st2, "Overflow")
    ELSE Ok([st2 EXCEPT !.pool.total_staked = @ - amount,
                        !.slash_records =
                            {r \in @ : r.staker # record.staker} \cup {record}])

\* slash leaving the pool's total_staked as it was
slash_keeping_total(st, signer, staker, amount, reason, now) ==
    LET stake_account == st.stake_accounts[staker]
        c1 == AccountConstraint(stake_account.init)
        c2 == InitConstraint(SlashRecordExists(st, staker, stake_account.slash_count))
        e == SlashChecks(stake_account, st.pool, signer, amount)
        p1 == update_pool_rewards(st.pool, now)
        st1 == [st EXCEPT !.pool = p1,
                          !.stake_accounts[staker].staked_amount = @ - amount]
        st2 == [st1 EXCEPT
                   !.stake_accounts[staker].slash_count = @ + 1,
                   !.stake_accounts[staker].reward_debt =
                       AccumulatedReward(stake_account.staked_amount - amount,
                                         p1.acc_reward_per_share)]
        record == [staker |-> stake_account.owner, index |-> stake_account.slash_count,
                   amount |-> amount, reason |-> reason, timestamp |-> now,
                   slashed_by |-> signer]
    IN
    IF c1 # "Ok" THEN Fail(st, c1)
    ELSE IF c2 # "Ok" THEN Fail(st, c2)
    ELSE IF e # "Ok" THEN Fail(st, e)
    ELSE IF stake_account.slash_count + 1 > U8_MAX THEN Abort(st, st1, "Overflow")
    ELSE IF p1.total_staked < amount THEN Abort(st, st2, "Overflow")
    ELSE Ok([st2 EXCEPT !.slash_records = @ \cup {record}])

slash(st, signer, staker, amount, reason, now) ==
    LET stake_account == st.stake_accounts[staker]
        c1 == AccountConstraint(stake_account.init)
        c2 == InitConstraint(SlashRecordExists(st, staker, stake_account.slash_count))
        e == SlashChecks(stake_account, st.pool, signer, amount)
        p1 == update_pool_rewards(st.pool, now)
        st1 == [st EXCEPT !.pool = p1,
                          !.stake_accounts[staker].staked_amount = @ - amount]
        st2 == [st1 EXCEPT
                   !.stake_accounts[staker].slash_count = @ + 1,
                   !.stake_accounts[staker].reward_debt =
                       AccumulatedReward(stake_account.staked_amount - amount,
                                         p1.acc_reward_per_share)]
        record == [staker |-> stake_account.owner, index |-> stake_account.slash_count,
                   amount |-> amount, reason |-> reason, timestamp |-> now,
                   slashed_by |-> signer]
    IN
    IF c1 # "Ok" THEN Fail(st, c1)
    ELSE IF c2 # "Ok" THEN Fail(st, c2)
    ELSE IF e # "Ok" THEN Fail(st, e)
    ELSE IF stake_account.slash_count + 1 > U8_MAX THEN Abort(st, st1, "Overflow")
    ELSE IF p1.total_staked < amount THEN Abort(st, st2, "Overflow")
    ELSE Ok([st2 EXCEPT !.pool.total_staked = @ - amount,
                        !.slash_records = @ \cup {record}])

\* an Option argument: <<>> is None, <<v>> is Some(v)
OptionOr(option, current) == IF option = <<>> THEN current ELSE option[1]

update_pool_config(st, caller, min_stake_amount, reward_rate_bps, unstake_cooldown) ==
    IF caller # st.pool.admin THEN Fail(st, "ConstraintHasOne")
    ELSE Ok([st EXCEPT
            !.pool.min_stake_amount = OptionOr(min_stake_amount, @),
            !.pool.reward_rate_bps = OptionOr(reward_rate_bps, @),
            !.pool.unstake_cooldown = OptionOr(unstake_cooldown, @)])

set_pool_paused(st, caller, paused) ==
    IF caller # st.pool.admin THEN Fail(st, "ConstraintHasOne")
    ELSE Ok([st EXCEPT !.pool.paused = paused])

(***************************************************************************)
(* reputation-engine.  Not modelled: the event counters of an account      *)
(* (verification_count, credential_count, activity_count and the two       *)
(* challenge counters), which no instruction reads, and the saturation of  *)
(* a score at u64::MAX.                                                    *)
(***************************************************************************)
ReputationAdmin == "reputation_admin"

NoReputationConfig ==
    [init |-> FALSE, admin |-> "none", base_score |-> 0, decay_rate |-> 0,
     verification_bonus |-> 0, credential_bonus |-> 0]

NoReputationAccount == [init |-> FALSE, score |-> 0, last_updated |-> 0]

\* the accounts a reputation instruction reads and writes
RepSt == [reputation_config |-> reputation_config,
          reputation_accounts |-> reputation_accounts]

\* from_score with every band ending one score earlier
from_score_exclusive(score) ==
    IF score < 300 THEN "Bronze"
    ELSE IF score < 500 THEN "Silver"
    ELSE IF score < 700 THEN "Gold"
    ELSE IF score < 900 THEN "Platinum"
    ELSE "Diamond"

\* ReputationTier::from_score
from_score(score) ==
    IF score <= 300 THEN "Bronze"
    ELSE IF score <= 500 THEN "Silver"
    ELSE IF score <= 700 THEN "Gold"
    ELSE IF score <= 900 THEN "Platinum"
    ELSE "Diamond"

\* u64::saturating_sub
SaturatingSub(a, b) == IF a >= b THEN a - b ELSE 0

\* apply_time_decay counting the seconds elapsed as decay periods
apply_time_decay_per_second(reputation, cfg, current_time) ==
    LET time_elapsed == current_time - reputation.last_updated
    IN  IF time_elapsed > 0
        THEN [reputation EXCEPT
                 !.score = SaturatingSub(@, cfg.decay_rate * time_elapsed)]
        ELSE reputation

apply_time_decay(reputation, cfg, current_time) ==
    LET time_elapsed == current_time - reputation.last_updated
        decay_periods == time_elapsed \div DECAY_PERIOD_SECONDS
    IN  IF time_elapsed > 0 /\ decay_periods > 0
        THEN [reputation EXCEPT
                 !.score = SaturatingSub(@, cfg.decay_rate * decay_periods)]
        ELSE reputation

initialize_reputation_config(admin, base_score, decay_rate, verification_bonus, credential_bonus) ==
    [init |-> TRUE, admin |-> admin, base_score |-> base_score,
     decay_rate |-> decay_rate, verification_bonus |-> verification_bonus,
     credential_bonus |-> credential_bonus]

initialize_reputation(st, identity, now) ==
    LET c == InitConstraint(st.reputation_accounts[identity].init) IN
    IF c # "Ok" THEN Fail(st, c)
    ELSE Ok([st EXCEPT !.reputation_accounts[identity] =
                [init |-> TRUE, score |-> st.reputation_config.base_score,
                 last_updated |-> now]])

\* the account constraints of the record_* and resolve_challenge instructions
RecordConstraints(st, caller, identity) ==
    IF ~st.reputation_accounts[identity].init THEN "AccountNotInitialized"
    ELSE IF caller # st.reputation_config.admin THEN "ConstraintHasOne"
    ELSE "Ok"

\* the body shared by record_verification, record_credential and
\* record_activity: decay, then the bonus, then last_updated
RecordEvent(st, caller, identity, bonus, now) ==
    LET c == RecordConstraints(st, caller, identity)
        decayed == apply_time_decay(st.reputation_accounts[identity],
                                    st.reputation_config, now)
    IN
    IF c # "Ok" THEN Fail(st, c)
    ELSE Ok([st EXCEPT !.reputation_accounts[identity] =
                [decayed EXCEPT !.score = @ + bonus, !.last_updated = now]])

record_verification(st, caller, identity, now) ==
    RecordEvent(st, caller, identity, st.reputation_config.verification_bonus, now)

record_credential(st, caller, identity, now) ==
    RecordEvent(st, caller, identity, st.reputation_config.credential_bonus, now)

\* the bonus of an activity type
activity_bonus(activity_type) ==
    CASE activity_type = 0 -> 10
      [] activity_type = 1 -> 25
      [] activity_type = 2 -> 50
      [] OTHER -> 5

record_activity(st, caller, identity, activity_type, now) ==
    RecordEvent(st, caller, identity, activity_bonus(activity_type), now)

resolve_challenge(st, caller, identity, challenge_won, penalty, now) ==
    LET c == RecordConstraints(st, caller, identity) IN
    IF c # "Ok" THEN Fail(st, c)
    ELSE Ok([st EXCEPT
                !.reputation_accounts[identity].score =
                    (IF challenge_won THEN @ ELSE SaturatingSub(@, penalty)),
                !.reputation_accounts[identity].last_updated = now])

(***************************************************************************)
(* credential-manager: accounts                                            *)
(***************************************************************************)
CredentialIds == {"c1"}

NoCredential == [init |-> FALSE, issuer |-> "none", status |-> "Active", expires_at |-> 0]

NoCredentialConfig ==
    [init |-> FALSE, default_validity_period |-> 0, max_validity_period |-> 0,
     total_credentials |-> 0]

\* the authorities with an Issuer account, registered and active
RegisteredIssuers == {"issuer1", "issuer2"}

\* validity_period: None is the empty sequence, Some(v) is <<v>>
NoValidity == <<>>

\* the accounts a credential instruction reads and writes
CredSt == [credential_config |-> credential_config, credentials |-> credentials]

(***************************************************************************)
(* credential-manager: instructions.  One schema, active and revocable, is *)
(* modelled, and issuers that stay active with a verification level the    *)
(* schema accepts; the issuers' counters, which no instruction reads, and  *)
(* the lengths of the strings are not modelled.                            *)
(***************************************************************************)
initialize_credential_config(default_validity_period, max_validity_period) ==
    [init |-> TRUE, default_validity_period |-> default_validity_period,
     max_validity_period |-> max_validity_period, total_credentials |-> 0]

\* the issuer account of the signing authority, then the credential and its
\* constraint credential.issuer == issuer.authority
IssuerConstraints(st, authority, credential_id) ==
    IF authority \notin RegisteredIssuers THEN "AccountNotInitialized"
    ELSE IF ~st.credentials[credential_id].init THEN "AccountNotInitialized"
    ELSE IF st.credentials[credential_id].issuer # authority THEN "ConstraintRaw"
    ELSE "Ok"

issue_credential(st, authority, credential_id, validity_period, now) ==
    LET c1 == AccountConstraint(authority \in RegisteredIssuers)
        c2 == InitConstraint(st.credentials[credential_id].init)
        validity == IF validity_period = NoValidity
                    THEN st.credential_config.default_validity_period
                    ELSE validity_period[1]
        expires_at == IF validity > 0 THEN now + validity ELSE 0
    IN
    IF c1 # "Ok" THEN Fail(st, c1)
    ELSE IF c2 # "Ok" THEN Fail(st, c2)
    ELSE IF ~(validity <= st.credential_config.max_validity_period)
         THEN Fail(st, "ValidityPeriodTooLong")
    ELSE Ok([st EXCEPT
                !.credentials[credential_id] =
                    [init |-> TRUE, issuer |-> authority, status |-> "Active",
                     expires_at |-> expires_at],
                !.credential_config.total_credentials = @ + 1])

revoke_credential(st, authority, credential_id) ==
    LET c == IssuerConstraints(st, authority, credential_id) IN
    IF c # "Ok" THEN Fail(st, c)
    ELSE IF st.credentials[credential_id].status = "Revoked"
         THEN Fail(st, "CredentialAlreadyRevoked")
    ELSE Ok([st EXCEPT !.credentials[credential_id].status = "Revoked"])

suspend_credential(st, authority, credential_id) ==
    LET c == IssuerConstraints(st, authority, credential_id) IN
    IF c # "Ok" THEN Fail(st, c)
    ELSE IF st.credentials[credential_id].status # "Active"
         THEN Fail(st, "CredentialNotActive")
    ELSE Ok([st EXCEPT !.credentials[credential_id].status = "Suspended"])

reactivate_credential(st, authority, credential_id, now) ==
    LET c == IssuerConstraints(st, authority, credential_id)
        credential == st.credentials[credential_id]
        expired == [st EXCEPT !.credentials[credential_id].status = "Expired"]
    IN
    IF c # "Ok" THEN Fail(st, c)
    ELSE IF credential.status # "Suspended" THEN Fail(st, "CredentialNotActive")
    ELSE IF credential.expires_at > 0 /\ now > credential.expires_at
         THEN Abort(st, expired, "CredentialExpired")
    ELSE Ok([st EXCEPT !.credentials[credential_id].status = "Active"])

(***************************************************************************)
(* identity-registry: the identity accounts and the instructions called    *)
(* directly.  An identity account is the PDA of its first authority; of    *)
(* its fields the authority, the reputation score, the recovery keys and   *)
(* the time of the stored Aadhaar data are modelled, its verification      *)
(* bitmap is verification_bitmap.  The lengths of the strings and of the   *)
(* encrypted fields are not modelled.                                      *)
(***************************************************************************)
\* GlobalConfig.reputation_engine, set once by initialize_config
IdentityReputationEngine == "reputation_engine_authority"

\* the authority whose identity account the key names
AuthorityOf(identity) == IF identity = "idA" THEN "userA" ELSE "userB"

NoIdentityAccount ==
    [init |-> FALSE, authority |-> "none", reputation_score |-> 0,
     recovery_keys |-> <<>>, aadhaar_verified_at |-> 0]

\* the accounts an identity-registry instruction reads and writes
IdSt == [identity_accounts |-> identity_accounts,
         verification_bitmap |-> verification_bitmap]

create_identity(st, authority, identity, recovery_keys) ==
    LET c == InitConstraint(st.identity_accounts[identity].init) IN
    IF authority # AuthorityOf(identity) THEN Fail(st, "ConstraintSeeds")
    ELSE IF c # "Ok" THEN Fail(st, c)
    ELSE IF ~(Len(recovery_keys) <= MAX_RECOVERY_KEYS) THEN Fail(st, "TooManyRecoveryKeys")
    ELSE Ok([st EXCEPT
                !.identity_accounts[identity] =
                    [init |-> TRUE, authority |-> authority,
                     reputation_score |-> INITIAL_REPUTATION_SCORE,
                     recovery_keys |-> recovery_keys, aadhaar_verified_at |-> 0],
                !.verification_bitmap[identity] = {}])

\* seeds = [b"identity", authority.key()] and has_one = authority on the
\* identity account
AuthorityConstraint(st, authority, identity) ==
    IF ~st.identity_accounts[identity].init THEN "AccountNotInitialized"
    ELSE IF authority # AuthorityOf(identity) THEN "ConstraintSeeds"
    ELSE IF st.identity_accounts[identity].authority # authority THEN "ConstraintHasOne"
    ELSE "Ok"

store_aadhaar_data(st, authority, oracle, identity, now) ==
    LET c == AuthorityConstraint(st, authority, identity) IN
    IF c # "Ok" THEN Fail(st, c)
    ELSE IF oracle # IdentityVerificationOracle THEN Fail(st, "UnauthorizedOracle")
    ELSE Ok([st EXCEPT !.identity_accounts[identity].aadhaar_verified_at = now])

\* update_verification_status called as an instruction: the identity account
\* must exist, then the constraint on the signer, then the handler
identity_update_verification_status(st, oracle, identity, verification_type, verified) ==
    LET c == AccountConstraint(st.identity_accounts[identity].init) IN
    IF c # "Ok" THEN Fail(st, c)
    ELSE update_verification_status(st, identity, oracle, verification_type, verified)

\* update_reputation without the constraint on its signer
update_reputation_any_signer(st, reputation_engine, identity, new_score) ==
    LET c == AccountConstraint(st.identity_accounts[identity].init) IN
    IF c # "Ok" THEN Fail(st, c)
    ELSE Ok([st EXCEPT !.identity_accounts[identity].reputation_score = new_score])

update_reputation(st, reputation_engine, identity, new_score) ==
    LET c == AccountConstraint(st.identity_accounts[identity].init) IN
    IF c # "Ok" THEN Fail(st, c)
    ELSE IF reputation_engine # IdentityReputationEngine
         THEN Fail(st, "UnauthorizedReputationEngine")
    ELSE Ok([st EXCEPT !.identity_accounts[identity].reputation_score = new_score])

add_recovery_key(st, authority, identity, recovery_key) ==
    LET c == AuthorityConstraint(st, authority, identity) IN
    IF c # "Ok" THEN Fail(st, c)
    ELSE IF ~(Len(st.identity_accounts[identity].recovery_keys) < MAX_RECOVERY_KEYS)
         THEN Fail(st, "TooManyRecoveryKeys")
    ELSE Ok([st EXCEPT !.identity_accounts[identity].recovery_keys =
                Append(@, recovery_key)])

recover_identity(st, recovery_signer, identity, new_authority) ==
    LET c == AccountConstraint(st.identity_accounts[identity].init) IN
    IF c # "Ok" THEN Fail(st, c)
    ELSE IF ~Contains(st.identity_accounts[identity].recovery_keys, recovery_signer)
         THEN Fail(st, "UnauthorizedRecovery")
    ELSE Ok([st EXCEPT !.identity_accounts[identity].authority = new_authority])

(***************************************************************************)
(* Actions: one per instruction, failed calls included                     *)
(***************************************************************************)
\* commit the outcome of an instruction and record it
Commit(op, oracle, rk, res) ==
    /\ config' = res.st.config
    /\ oracle_nodes' = res.st.oracle_nodes
    /\ requests' = res.st.requests
    /\ responses' = res.st.responses
    /\ verification_bitmap' = res.st.verification_bitmap
    /\ fee_vault' = res.st.fee_vault
    /\ last' = [op |-> op, err |-> res.err, oracle |-> oracle, request |-> rk]
    /\ UNCHANGED <<clock, outcome, stakingVars, reputationVars, credentialVars, identityVars, calcVars>>

\* Clock::get(): the cluster time only moves forward
Tick ==
    /\ clock < MaxTime
    /\ clock' = clock + 1
    /\ last' = [op |-> "tick", err |-> "Ok", oracle |-> NoKey, request |-> NoRequestKey]
    /\ UNCHANGED <<oracleVars, outcome, stakingVars, reputationVars, credentialVars, identityVars, calcVars>>

RegisterOracle(o) ==
    Commit("register_oracle", o, NoRequestKey, register_oracle(St, o))

DeregisterOracle(o) ==
    Commit("deregister_oracle", o, NoRequestKey, deregister_oracle(St, o))

SlashOracle(caller, o) ==
    /\ oracle_nodes[o].slash_count < MaxSlashCount
    /\ Commit("slash_oracle", o, NoRequestKey, slash_oracle(St, caller, o))

UpdateConfig(caller, q) ==
    Commit("update_config", NoKey, NoRequestKey, update_config(St, caller, q))

RequestVerification(identity, t) ==
    Commit("request_verification", NoKey, <<identity, t>>,
           request_verification(St, identity, t, clock))

SubmitVerification(o, rk, verified) ==
    Commit("submit_verification", o, rk, submit_verification(St, o, rk, verified, clock))

FinalizeVerification(rk, identity, signer) ==
    Commit("finalize_verification", NoKey, rk,
           finalize_verification(St, rk, identity, signer))

ExpireVerification(rk) ==
    Commit("expire_verification", NoKey, rk, expire_verification(St, rk, clock))

(***************************************************************************)
(* Specification: the state after initialize, then any instruction         *)
(***************************************************************************)
QuorumValues == 1..MaxQuorum

NoOutcome == [op |-> "none", err |-> "Ok", signer |-> "none", account |-> "none",
              amount |-> 0]

\* the staking pool not created yet
StakingIdle ==
    /\ pool = NoPool
    /\ stake_accounts = [s \in Stakers |-> NoStakeAccount]
    /\ slash_records = {}
    /\ lamports = [k \in Stakers \cup {PoolVault} |-> 0]
    /\ ledger = [paid |-> 0, accrued |-> <<>>]

\* the reputation engine not configured yet
ReputationIdle ==
    /\ reputation_config = NoReputationConfig
    /\ reputation_accounts = [i \in Identities |-> NoReputationAccount]

\* no reward computation under way
CalcIdle == calc = NoCalc

\* no identity account created yet
IdentityIdle == identity_accounts = [i \in Identities |-> NoIdentityAccount]

\* no credential issued yet
CredentialIdle ==
    /\ credential_config = NoCredentialConfig
    /\ credentials = [c \in CredentialIds |-> NoCredential]

\* the config account before initialize
NoOracleConfig ==
    [init |-> FALSE, verification_fee |-> 0, required_confirmations |-> 0,
     verification_timeout |-> 0, active_oracle_count |-> 0, total_verifications |-> 0]

\* the oracle accounts after initialize(required_confirmations, verification_timeout)
OracleAccounts(q) ==
    /\ config = [init |-> TRUE, verification_fee |-> VerificationFee,
                 required_confirmations |-> q, verification_timeout |-> Timeout,
                 active_oracle_count |-> 0, total_verifications |-> 0]
    /\ oracle_nodes = [o \in OracleKeys |-> NoOracleNode]
    /\ requests = [rk \in RequestKeys |-> NoRequest]
    /\ responses = [rk \in RequestKeys |-> [o \in OracleKeys |-> NoResponse]]
    /\ verification_bitmap = [i \in Identities |-> {}]
    /\ fee_vault = 0
    /\ last = [op |-> "initialize", err |-> "Ok", oracle |-> NoKey,
               request |-> NoRequestKey]

\* the oracle program not initialised
OracleIdle ==
    /\ config = NoOracleConfig
    /\ oracle_nodes = [o \in OracleKeys |-> NoOracleNode]
    /\ requests = [rk \in RequestKeys |-> NoRequest]
    /\ responses = [rk \in RequestKeys |-> [o \in OracleKeys |-> NoResponse]]
    /\ verification_bitmap = [i \in Identities |-> {}]
    /\ fee_vault = 0
    /\ last = [op |-> "none", err |-> "Ok", oracle |-> NoKey,
               request |-> NoRequestKey]

\* the state after the oracle program's initialize
Initialized(q) ==
    /\ clock = 0
    /\ OracleAccounts(q)
    /\ StakingIdle
    /\ ReputationIdle
    /\ CredentialIdle
    /\ IdentityIdle
    /\ CalcIdle
    /\ outcome = NoOutcome

Init == \E q \in QuorumValues : Initialized(q)

\* the consensus on a request: oracles register and vote, anyone finalizes or
\* expires, the admin changes the quorum
Next ==
    \/ Tick
    \/ \E o \in Oracles : RegisterOracle(o)
    \/ \E caller \in Callers, q \in QuorumValues : UpdateConfig(caller, q)
    \/ \E rk \in MainRequests, t \in VTypeInputs : RequestVerification(rk[1], t)
    \/ \E o \in Oracles, rk \in MainRequests, v \in BOOLEAN : SubmitVerification(o, rk, v)
    \/ \E rk \in MainRequests, i \in Identities, s \in SignerKeys :
           FinalizeVerification(rk, i, s)
    \/ \E rk \in MainRequests : ExpireVerification(rk)

Spec == Init /\ [][Next]_vars

(***************************************************************************)
(* Specification of the oracle nodes' life: registration, deregistration   *)
(* and slashing interleaved with requests, votes and finalization, for     *)
(* fewer oracles and with the clock standing still                         *)
(***************************************************************************)
LifecycleOracles == 1..NumLifecycleOracles

NextOracle ==
    \/ \E o \in LifecycleOracles : RegisterOracle(o)
    \/ \E o \in LifecycleOracles : DeregisterOracle(o)
    \/ \E caller \in Callers, o \in LifecycleOracles : SlashOracle(caller, o)
    \/ \E rk \in MainRequests, t \in VTypeInputs : RequestVerification(rk[1], t)
    \/ \E o \in LifecycleOracles, rk \in MainRequests, v \in BOOLEAN :
           SubmitVerification(o, rk, v)
    \/ \E rk \in MainRequests, i \in Identities, s \in SignerKeys :
           FinalizeVerification(rk, i, s)

SpecOracle == Init /\ [][NextOracle]_vars

(***************************************************************************)
(* Specification of a request's end: the cluster time keeps advancing and  *)
(* expire_verification keeps being called for every request.  Requests     *)
(* are made while their deadline lies within the modelled time.            *)
(***************************************************************************)
RequestVerificationInTime(identity, t) ==
    /\ clock + Timeout < MaxTime
    /\ RequestVerification(identity, t)

NextLive ==
    \/ Tick
    \/ \E o \in LifecycleOracles : RegisterOracle(o)
    \/ \E rk \in MainRequests, t \in VTypeInputs : RequestVerificationInTime(rk[1], t)
    \/ \E o \in LifecycleOracles, rk \in MainRequests, v \in BOOLEAN :
           SubmitVerification(o, rk, v)
    \/ \E rk \in MainRequests, i \in Identities, s \in SignerKeys :
           FinalizeVerification(rk, i, s)
    \/ \E rk \in MainRequests : ExpireVerification(rk)

ExpireFairness == \A rk \in MainRequests : WF_vars(ExpireVerification(rk))

SpecLive == Init /\ [][NextLive]_vars /\ WF_vars(Tick) /\ ExpireFairness

(***************************************************************************)
(* Specification of a request near its capacity: it starts from the state  *)
(* reached by registering every oracle key, requesting one verification    *)
(* and letting the first NumPreVoted oracles vote                          *)
(***************************************************************************)
CapRequest == <<"idA", 0>>

RECURSIVE RegisterAll(_, _)
RegisterAll(st, n) ==
    IF n = 0 THEN st ELSE register_oracle(RegisterAll(st, n - 1), n).st

\* oracles 1..n have voted, the first k of them to confirm
RECURSIVE VoteAll(_, _, _)
VoteAll(st, n, k) ==
    IF n = 0 THEN st
    ELSE submit_verification(VoteAll(st, n - 1, k), n, CapRequest, n <= k, 0).st

CapStart(q, k) ==
    LET st0 == [config |-> [init |-> TRUE, verification_fee |-> VerificationFee,
                            required_confirmations |-> q,
                            verification_timeout |-> Timeout,
                            active_oracle_count |-> 0, total_verifications |-> 0],
                oracle_nodes |-> [o \in OracleKeys |-> NoOracleNode],
                requests |-> [rk \in RequestKeys |-> NoRequest],
                responses |-> [rk \in RequestKeys |-> [o \in OracleKeys |-> NoResponse]],
                verification_bitmap |-> [i \in Identities |-> {}],
                fee_vault |-> 0]
        st1 == RegisterAll(st0, MAX_ORACLES + ExtraOracles)
        st2 == request_verification(st1, CapRequest[1], CapRequest[2], 0).st
    IN VoteAll(st2, NumPreVoted, k)

\* how many of the first NumPreVoted votes confirm
CapSplits == {0, NumPreVoted \div 2, NumPreVoted}

InitCap ==
    \E k \in CapSplits :
        LET st == CapStart(MaxQuorum, k) IN
        /\ clock = 0
        /\ config = st.config
        /\ oracle_nodes = st.oracle_nodes
        /\ requests = st.requests
        /\ responses = st.responses
        /\ verification_bitmap = st.verification_bitmap
        /\ fee_vault = st.fee_vault
        /\ last = [op |-> "submit_verification", err |-> "Ok", oracle |-> NumPreVoted,
                   request |-> CapRequest]
        /\ StakingIdle
        /\ ReputationIdle
        /\ CredentialIdle
        /\ IdentityIdle
        /\ CalcIdle
        /\ outcome = NoOutcome

\* the last oracle that voted before the start, and those that have not voted
CapOracles == NumPreVoted..(MAX_ORACLES + ExtraOracles)

NextCap ==
    \/ Tick
    \/ \E o \in CapOracles : DeregisterOracle(o)
    \/ \E o \in CapOracles, v \in BOOLEAN : SubmitVerification(o, CapRequest, v)
    \/ \E s \in SignerKeys : FinalizeVerification(CapRequest, CapRequest[1], s)
    \/ ExpireVerification(CapRequest)

SpecCap == InitCap /\ [][NextCap]_vars

(***************************************************************************)
(* staking-manager: actions and specification.  ledger is the history the  *)
(* pool keeps no record of: the rewards paid by claim_rewards, and the     *)
(* integral of reward_rate_bps * total_staked over the elapsed time.       *)
(***************************************************************************)
StakeCommit(op, signer, account, amount, res) ==
    /\ pool.init
    /\ pool' = res.st.pool
    /\ stake_accounts' = res.st.stake_accounts
    /\ slash_records' = res.st.slash_records
    /\ lamports' = res.st.lamports
    /\ ledger' = [ledger EXCEPT !.paid =
                     IF op = "claim_rewards"
                     THEN @ + (res.st.lamports[account] - lamports[account])
                     ELSE @]
    /\ outcome' = [op |-> op, err |-> res.err, signer |-> signer,
                   account |-> account, amount |-> amount]
    /\ UNCHANGED <<clock, last, oracleVars, reputationVars, credentialVars, identityVars, calcVars>>

\* Clock::get(): the cluster time moves forward
StakeTick ==
    /\ pool.init
    /\ clock < StartTime + MaxStakeTicks * TickSeconds
    /\ clock' = clock + TickSeconds
    /\ ledger' = [ledger EXCEPT !.accrued =
                     DecAdd(@, DecMul(DecMul(DecOf(TickSeconds), pool.reward_rate_bps),
                                      pool.total_staked))]
    /\ outcome' = [NoOutcome EXCEPT !.op = "tick"]
    /\ UNCHANGED <<pool, stake_accounts, slash_records, lamports, last,
                   oracleVars, reputationVars, credentialVars, identityVars, calcVars>>

Stake(owner, amount) ==
    StakeCommit("stake", owner, owner, amount, stake(StakeSt, owner, amount, clock))

RequestUnstake(owner, amount) ==
    StakeCommit("request_unstake", owner, owner, amount,
                request_unstake(StakeSt, owner, amount, clock))

CompleteUnstake(owner) ==
    StakeCommit("complete_unstake", owner, owner, 0,
                complete_unstake(StakeSt, owner, clock))

ClaimRewards(owner) ==
    StakeCommit("claim_rewards", owner, owner, 0, claim_rewards(StakeSt, owner, clock))

Slash(signer, staker, amount, reason) ==
    /\ stake_accounts[staker].slash_count < MaxStakeSlashes
    /\ StakeCommit("slash", signer, staker, amount,
                   slash(StakeSt, signer, staker, amount, reason, clock))

SetPoolPaused(caller, paused) ==
    StakeCommit("set_pool_paused", caller, "none", 0,
                set_pool_paused(StakeSt, caller, paused))

\* the amounts the instructions are called with
StakeAmounts == {0, 10}

UnstakeAmounts == {0, 10}

SlashAmounts == {0, 10}

\* the accounts after initialize_pool(min_stake_amount = 10, reward_rate_bps =
\* 1000, unstake_cooldown = one tick), every staker's wallet funded
InitStake ==
    /\ clock = StartTime
    /\ OracleIdle
    /\ ReputationIdle
    /\ CredentialIdle
    /\ IdentityIdle
    /\ CalcIdle
    /\ pool = initialize_pool(PoolAdmin, 10, 1000, TickSeconds, SlashAuthority, StartTime)
    /\ stake_accounts = [s \in Stakers |-> NoStakeAccount]
    /\ slash_records = {}
    /\ lamports = [k \in Stakers \cup {PoolVault} |->
                      IF k = "s1" THEN 2 * WalletLamports
                      ELSE IF k = "s2" THEN WalletLamports ELSE 0]
    /\ ledger = [paid |-> 0, accrued |-> <<>>]
    /\ outcome = [NoOutcome EXCEPT !.op = "initialize_pool"]

NextStake ==
    \/ StakeTick
    \/ \E s \in Stakers, a \in StakeAmounts : Stake(s, a)
    \/ \E s \in Stakers, a \in UnstakeAmounts : RequestUnstake(s, a)
    \/ \E s \in Stakers : CompleteUnstake(s)
    \/ \E s \in Stakers : ClaimRewards(s)
    \/ \E k \in SlashSigners, s \in Stakers, a \in SlashAmounts, r \in SlashReasons :
           Slash(k, s, a, r)

SpecStake == InitStake /\ [][NextStake]_vars

(***************************************************************************)
(* Specification of repeated slashes: the pool of InitStake, where an      *)
(* account is slashed more than once between stakes and unstakes           *)
(***************************************************************************)
SlashRepeated(signer, staker, amount, reason) ==
    /\ stake_accounts[staker].slash_count < MaxRepeatedSlashes
    /\ StakeCommit("slash", signer, staker, amount,
                   slash(StakeSt, signer, staker, amount, reason, clock))

NextSlashRecords ==
    \/ StakeTick
    \/ \E s \in Stakers, a \in StakeAmounts : Stake(s, a)
    \/ \E s \in Stakers, a \in UnstakeAmounts : RequestUnstake(s, a)
    \/ \E s \in Stakers : CompleteUnstake(s)
    \/ \E k \in SlashSigners, s \in Stakers, a \in SlashAmounts, r \in SlashReasons :
           SlashRepeated(k, s, a, r)

SpecSlashRecords == InitStake /\ [][NextSlashRecords]_vars

(***************************************************************************)
(* Specification of the one-year scenario: the pool of InitStake with      *)
(* stakes of 1_000_000 and wallets that hold one such stake                *)
(***************************************************************************)
\* the amount staked in the scenario
YearStakes == {1000000}

InitYear ==
    /\ clock = StartTime
    /\ OracleIdle
    /\ ReputationIdle
    /\ CredentialIdle
    /\ IdentityIdle
    /\ CalcIdle
    /\ pool = initialize_pool(PoolAdmin, 10, 1000, TickSeconds, SlashAuthority, StartTime)
    /\ stake_accounts = [s \in Stakers |-> NoStakeAccount]
    /\ slash_records = {}
    /\ lamports = [k \in Stakers \cup {PoolVault} |->
                      IF k \in Stakers THEN 1000000 ELSE 0]
    /\ ledger = [paid |-> 0, accrued |-> <<>>]
    /\ outcome = [NoOutcome EXCEPT !.op = "initialize_pool"]

NextYear ==
    \/ StakeTick
    \/ \E s \in Stakers, a \in YearStakes : Stake(s, a)
    \/ \E s \in Stakers, a \in YearStakes : RequestUnstake(s, a)
    \/ \E s \in Stakers : CompleteUnstake(s)
    \/ \E s \in Stakers : ClaimRewards(s)

SpecYear == InitYear /\ [][NextYear]_vars

(***************************************************************************)
(* reputation-engine: actions and specification                            *)
(***************************************************************************)
\* the identities with a reputation account, the signers and the inputs
RepIdentities == {"idA"}

RepCallers == {ReputationAdmin, "other"}

ActivityTypes == {0, 1, 2, 3}

Penalties == {60}

\* the times at which the instructions run: within a day of the start, one
\* decay period later, and two
RepTimes ==
    {StartTime, StartTime + DaySeconds \div 2, StartTime + DaySeconds,
     StartTime + DECAY_PERIOD_SECONDS,
     StartTime + DECAY_PERIOD_SECONDS + DaySeconds \div 2,
     StartTime + 2 * DECAY_PERIOD_SECONDS}

RepCommit(op, signer, account, amount, res) ==
    /\ reputation_config.init
    /\ reputation_config' = res.st.reputation_config
    /\ reputation_accounts' = res.st.reputation_accounts
    /\ outcome' = [op |-> op, err |-> res.err, signer |-> signer,
                   account |-> account, amount |-> amount]
    /\ UNCHANGED <<clock, last, oracleVars, stakingVars, credentialVars, identityVars, calcVars>>

\* Clock::get(): the cluster time moves forward
RepTick ==
    /\ reputation_config.init
    /\ \E t \in RepTimes : t > clock /\ clock' = t
    /\ outcome' = [NoOutcome EXCEPT !.op = "tick"]
    /\ UNCHANGED <<last, oracleVars, stakingVars, reputationVars, credentialVars, identityVars, calcVars>>

InitializeReputation(identity) ==
    RepCommit("initialize_reputation", "authority", identity, 0,
              initialize_reputation(RepSt, identity, clock))

RecordVerification(caller, identity) ==
    /\ reputation_accounts[identity].score <= ScoreCap
    /\ RepCommit("record_verification", caller, identity, 0,
                 record_verification(RepSt, caller, identity, clock))

RecordCredential(caller, identity) ==
    /\ reputation_accounts[identity].score <= ScoreCap
    /\ RepCommit("record_credential", caller, identity, 0,
                 record_credential(RepSt, caller, identity, clock))

RecordActivity(caller, identity, activity_type) ==
    /\ reputation_accounts[identity].score <= ScoreCap
    /\ RepCommit("record_activity", caller, identity, activity_type,
                 record_activity(RepSt, caller, identity, activity_type, clock))

ResolveChallenge(caller, identity, challenge_won, penalty) ==
    RepCommit("resolve_challenge", caller, identity, penalty,
              resolve_challenge(RepSt, caller, identity, challenge_won, penalty, clock))

\* the accounts after initialize_config(base_score = 500, decay_rate = 10,
\* verification_bonus = 50, credential_bonus = 30)
InitReputation ==
    /\ clock = StartTime
    /\ OracleIdle
    /\ StakingIdle
    /\ CredentialIdle
    /\ IdentityIdle
    /\ CalcIdle
    /\ reputation_config = initialize_reputation_config(ReputationAdmin, 500, 10, 50, 30)
    /\ reputation_accounts = [i \in Identities |-> NoReputationAccount]
    /\ outcome = [NoOutcome EXCEPT !.op = "initialize_config"]

NextReputation ==
    \/ RepTick
    \/ \E i \in RepIdentities : InitializeReputation(i)
    \/ \E k \in RepCallers, i \in RepIdentities : RecordVerification(k, i)
    \/ \E k \in RepCallers, i \in RepIdentities : RecordCredential(k, i)
    \/ \E k \in RepCallers, i \in RepIdentities, a \in ActivityTypes :
           RecordActivity(k, i, a)
    \/ \E k \in RepCallers, i \in RepIdentities, w \in BOOLEAN, p \in Penalties :
           ResolveChallenge(k, i, w, p)

SpecReputation == InitReputation /\ [][NextReputation]_vars

(***************************************************************************)
(* credential-manager: actions and specification                           *)
(***************************************************************************)
CredentialSigners == RegisteredIssuers \cup {"other"}

\* the validity periods asked for: none, never expiring, a day, two days
ValidityPeriods == {NoValidity, <<0>>, <<DaySeconds>>, <<2 * DaySeconds>>}

CredCommit(op, signer, account, res) ==
    /\ credential_config.init
    /\ credential_config' = res.st.credential_config
    /\ credentials' = res.st.credentials
    /\ outcome' = [op |-> op, err |-> res.err, signer |-> signer,
                   account |-> account, amount |-> 0]
    /\ UNCHANGED <<clock, last, oracleVars, stakingVars, reputationVars, identityVars, calcVars>>

\* Clock::get(): the cluster time moves forward
CredTick ==
    /\ credential_config.init
    /\ clock < StartTime + MaxCredentialDays * DaySeconds
    /\ clock' = clock + DaySeconds
    /\ outcome' = [NoOutcome EXCEPT !.op = "tick"]
    /\ UNCHANGED <<last, oracleVars, stakingVars, reputationVars, credentialVars, identityVars, calcVars>>

IssueCredential(authority, credential_id, validity_period) ==
    CredCommit("issue_credential", authority, credential_id,
               issue_credential(CredSt, authority, credential_id, validity_period, clock))

RevokeCredential(authority, credential_id) ==
    CredCommit("revoke_credential", authority, credential_id,
               revoke_credential(CredSt, authority, credential_id))

SuspendCredential(authority, credential_id) ==
    CredCommit("suspend_credential", authority, credential_id,
               suspend_credential(CredSt, authority, credential_id))

ReactivateCredential(authority, credential_id) ==
    CredCommit("reactivate_credential", authority, credential_id,
               reactivate_credential(CredSt, authority, credential_id, clock))

\* the accounts after initialize(default_validity_period = max_validity_period =
\* one day)
InitCredential ==
    /\ clock = StartTime
    /\ OracleIdle
    /\ StakingIdle
    /\ ReputationIdle
    /\ IdentityIdle
    /\ CalcIdle
    /\ credential_config = initialize_credential_config(DaySeconds, DaySeconds)
    /\ credentials = [c \in CredentialIds |-> NoCredential]
    /\ outcome = [NoOutcome EXCEPT !.op = "initialize"]

NextCredential ==
    \/ CredTick
    \/ \E k \in CredentialSigners, c \in CredentialIds, v \in ValidityPeriods :
           IssueCredential(k, c, v)
    \/ \E k \in CredentialSigners, c \in CredentialIds : RevokeCredential(k, c)
    \/ \E k \in CredentialSigners, c \in CredentialIds : SuspendCredential(k, c)
    \/ \E k \in CredentialSigners, c \in CredentialIds : ReactivateCredential(k, c)

(***************************************************************************)
(* Specification of the four programs: each behaviour starts with one of   *)
(* them initialised and runs its instructions, the oracle program with a   *)
(* single oracle and the staking pool with a single staker                 *)
(***************************************************************************)
ProgramOracles == {1}

ProgramStakers == {"s1"}

InitPrograms == Init \/ InitStake \/ InitReputation \/ InitCredential

NextProgramOracle ==
    /\ config.init
    /\ \/ Tick
       \/ \E o \in ProgramOracles : RegisterOracle(o)
       \/ \E o \in ProgramOracles : DeregisterOracle(o)
       \/ \E caller \in Callers, o \in ProgramOracles : SlashOracle(caller, o)
       \/ \E caller \in Callers, q \in QuorumValues : UpdateConfig(caller, q)
       \/ \E rk \in MainRequests, t \in VTypeInputs : RequestVerification(rk[1], t)
       \/ \E o \in ProgramOracles, rk \in MainRequests, v \in BOOLEAN :
              SubmitVerification(o, rk, v)
       \/ \E rk \in MainRequests, i \in Identities, s \in SignerKeys :
              FinalizeVerification(rk, i, s)
       \/ \E rk \in MainRequests : ExpireVerification(rk)

NextProgramStake ==
    \/ StakeTick
    \/ \E s \in ProgramStakers, a \in StakeAmounts : Stake(s, a)
    \/ \E s \in ProgramStakers, a \in UnstakeAmounts : RequestUnstake(s, a)
    \/ \E s \in ProgramStakers : CompleteUnstake(s)
    \/ \E s \in ProgramStakers : ClaimRewards(s)
    \/ \E k \in SlashSigners, s \in ProgramStakers, a \in SlashAmounts,
           r \in SlashReasons : Slash(k, s, a, r)
    \/ \E k \in {PoolAdmin, "other"}, b \in BOOLEAN : SetPoolPaused(k, b)

NextPrograms ==
    \/ NextProgramOracle
    \/ NextProgramStake
    \/ NextReputation
    \/ NextCredential

SpecPrograms == InitPrograms /\ [][NextPrograms]_vars

(***************************************************************************)
(* Specification of a change of the reward rate: the pool of InitStake     *)
(* with one staker, where the admin calls update_pool_config between the   *)
(* stakes and claims                                                       *)
(***************************************************************************)
\* the arguments of update_pool_config
RateOptions == {<<>>, <<1000>>, <<2000>>}

MinStakeOptions == {<<>>, <<10>>}

CooldownOptions == {<<>>, <<TickSeconds>>}

UpdatePoolConfig(caller, min_stake_amount, reward_rate_bps, unstake_cooldown) ==
    StakeCommit("update_pool_config", caller, "none", 0,
                update_pool_config(StakeSt, caller, min_stake_amount, reward_rate_bps,
                                   unstake_cooldown))

NextRate ==
    \/ StakeTick
    \/ \E s \in ProgramStakers, a \in StakeAmounts : Stake(s, a)
    \/ \E s \in ProgramStakers : ClaimRewards(s)
    \/ \E k \in {PoolAdmin, "other"}, m \in MinStakeOptions, r \in RateOptions,
           c \in CooldownOptions : UpdatePoolConfig(k, m, r, c)

SpecRate == InitStake /\ [][NextRate]_vars

(***************************************************************************)
(* Specification of the tier of a score: a score is drawn and              *)
(* ReputationTier::from_score is applied to it                             *)
(***************************************************************************)
TierScores == 0..ScoreCap

InitTier ==
    /\ clock = StartTime
    /\ OracleIdle
    /\ StakingIdle
    /\ ReputationIdle
    /\ CredentialIdle
    /\ IdentityIdle
    /\ \E score \in TierScores : calc = [phase |-> "drawn", score |-> score, tier |-> "none"]
    /\ outcome = NoOutcome

ComputeTier ==
    /\ calc.phase = "drawn"
    /\ calc' = [calc EXCEPT !.phase = "computed", !.tier = from_score(calc.score)]
    /\ outcome' = [NoOutcome EXCEPT !.op = "from_score"]
    /\ UNCHANGED <<clock, last, oracleVars, stakingVars, reputationVars,
                   credentialVars, identityVars>>

NextTier == ComputeTier

SpecTier == InitTier /\ [][NextTier]_vars

(***************************************************************************)
(* identity-registry: actions and specification                            *)
(***************************************************************************)
IdentityAuthorities == {"userA", "userB"}

\* the signers of update_verification_status and update_reputation
IdentitySigners == {IdentityVerificationOracle, IdentityReputationEngine, "userA"}

RecoveryKeys == {"recoveryA"}

\* the identities the instructions are called on
RegistryIdentities == {"idA"}

\* the scores update_reputation is called with
NewScores == {0, 700}

IdCommit(op, signer, account, amount, res) ==
    /\ identity_accounts' = res.st.identity_accounts
    /\ verification_bitmap' = res.st.verification_bitmap
    /\ outcome' = [op |-> op, err |-> res.err, signer |-> signer,
                   account |-> account, amount |-> amount]
    /\ UNCHANGED <<clock, last, config, oracle_nodes, requests, responses, fee_vault,
                   stakingVars, reputationVars, credentialVars, calcVars>>

CreateIdentity(authority, identity, recovery_keys) ==
    IdCommit("create_identity", authority, identity, 0,
             create_identity(IdSt, authority, identity, recovery_keys))

StoreAadhaarData(authority, oracle, identity) ==
    IdCommit("store_aadhaar_data", authority, identity, 0,
             store_aadhaar_data(IdSt, authority, oracle, identity, clock))

UpdateVerificationStatus(oracle, identity, verification_type, verified) ==
    IdCommit("update_verification_status", oracle, identity, verification_type,
             identity_update_verification_status(IdSt, oracle, identity,
                                                 verification_type, verified))

UpdateReputation(reputation_engine, identity, new_score) ==
    IdCommit("update_reputation", reputation_engine, identity, new_score,
             update_reputation(IdSt, reputation_engine, identity, new_score))

AddRecoveryKey(authority, identity, recovery_key) ==
    /\ Len(identity_accounts[identity].recovery_keys) <= MaxRecoveryKeysAdded
    /\ IdCommit("add_recovery_key", authority, identity, 0,
                add_recovery_key(IdSt, authority, identity, recovery_key))

RecoverIdentity(recovery_signer, identity, new_authority) ==
    IdCommit("recover_identity", recovery_signer, identity, 0,
             recover_identity(IdSt, recovery_signer, identity, new_authority))

\* the accounts after initialize_config, the clock at StartTime
InitIdentity ==
    /\ clock = StartTime
    /\ OracleIdle
    /\ StakingIdle
    /\ ReputationIdle
    /\ CredentialIdle
    /\ IdentityIdle
    /\ CalcIdle
    /\ outcome = [NoOutcome EXCEPT !.op = "initialize_config"]

NextIdentity ==
    \/ \E a \in IdentityAuthorities, i \in RegistryIdentities, k \in {<<>>, <<"recoveryA">>} :
           CreateIdentity(a, i, k)
    \/ \E a \in IdentityAuthorities, o \in IdentitySigners, i \in RegistryIdentities :
           StoreAadhaarData(a, o, i)
    \/ \E o \in IdentitySigners, i \in RegistryIdentities, t \in VTypeInputs, v \in BOOLEAN :
           UpdateVerificationStatus(o, i, t, v)
    \/ \E e \in IdentitySigners, i \in RegistryIdentities, n \in NewScores :
           UpdateReputation(e, i, n)
    \/ \E a \in IdentityAuthorities, i \in RegistryIdentities, k \in RecoveryKeys :
           AddRecoveryKey(a, i, k)
    \/ \E k \in RecoveryKeys \cup {"userA"}, i \in RegistryIdentities,
           a \in IdentityAuthorities \cup {"userC"} : RecoverIdentity(k, i, a)

SpecIdentity == InitIdentity /\ [][NextIdentity]_vars

(***************************************************************************)
(* Specification of slashing across the programs: the oracle program, the  *)
(* staking pool and the reputation engine are initialised together; an     *)
(* oracle registers with a stake account and has a reputation account      *)
(***************************************************************************)
\* OracleNode.stake_account: the stake account an oracle registered with
StakeAccountOf(o) == "s1"

\* the identity whose reputation account is the oracle's
ReputationOf(o) == "idA"

InitSlashing ==
    /\ clock = StartTime
    /\ OracleAccounts(MaxQuorum)
    /\ CredentialIdle
    /\ IdentityIdle
    /\ CalcIdle
    /\ pool = initialize_pool(PoolAdmin, 10, 1000, TickSeconds, SlashAuthority, StartTime)
    /\ stake_accounts = [s \in Stakers |-> NoStakeAccount]
    /\ slash_records = {}
    /\ lamports = [k \in Stakers \cup {PoolVault} |->
                      IF k = "s1" THEN 2 * WalletLamports ELSE 0]
    /\ ledger = [paid |-> 0, accrued |-> <<>>]
    /\ reputation_config = initialize_reputation_config(ReputationAdmin, 500, 10, 50, 30)
    /\ reputation_accounts = [i \in Identities |-> NoReputationAccount]
    /\ outcome = [NoOutcome EXCEPT !.op = "initialize_pool"]

NextSlashing ==
    \/ \E o \in ProgramOracles : RegisterOracle(o)
    \/ \E caller \in Callers, o \in ProgramOracles : SlashOracle(caller, o)
    \/ \E o \in ProgramOracles, a \in StakeAmounts : Stake(StakeAccountOf(o), a)
    \/ \E k \in SlashSigners, o \in ProgramOracles, a \in SlashAmounts,
           r \in SlashReasons : Slash(k, StakeAccountOf(o), a, r)
    \/ \E o \in ProgramOracles : InitializeReputation(ReputationOf(o))
    \/ \E k \in RepCallers, o \in ProgramOracles, w \in BOOLEAN, p \in Penalties :
           ResolveChallenge(k, ReputationOf(o), w, p)

SpecSlashing == InitSlashing /\ [][NextSlashing]_vars

(***************************************************************************)
(* Specification of the reward computation on values of full width: a      *)
(* stake account and a pool are drawn with fields up to the limits of      *)
(* their types, calculate_pending_rewards runs, and its result is added    *)
(* to pending_rewards as stake, complete_unstake and claim_rewards do      *)
(***************************************************************************)
WideStakes == {DecOf(10), TWO_POW_63, DecSub(U64_LIMIT, <<1>>)}

\* acc_reward_per_share: nothing, one and three lamports per lamport staked,
\* and the largest u128
WideAccumulators ==
    {<<>>, DecShiftLeft(<<1>>, REWARD_PRECISION_DIGITS),
     DecShiftLeft(<<3>>, REWARD_PRECISION_DIGITS), DecSub(U128_LIMIT, <<1>>)}

WideDebts == {<<>>, DecOf(5), TWO_POW_63}

WidePending == {<<>>, DecOf(7), DecSub(U64_LIMIT, <<1>>)}

InitWide ==
    /\ clock = StartTime
    /\ OracleIdle
    /\ StakingIdle
    /\ ReputationIdle
    /\ CredentialIdle
    /\ IdentityIdle
    /\ \E s \in WideStakes, a \in WideAccumulators, d \in WideDebts, r \in WidePending :
           calc = [NoCalc EXCEPT !.phase = "drawn", !.staked_amount = s,
                                 !.acc_reward_per_share = a, !.reward_debt = d,
                                 !.pending_rewards = r]
    /\ outcome = NoOutcome

\* let pending = calculate_pending_rewards(stake_account, pool)?
CalculatePending ==
    /\ calc.phase = "drawn"
    /\ LET res == calculate_pending_rewards_wide(calc.staked_amount,
                                                 calc.acc_reward_per_share,
                                                 calc.reward_debt)
       IN  calc' = [calc EXCEPT !.phase = IF res.err = "Ok" THEN "calculated" ELSE "failed",
                                !.err = res.err, !.pending = res.value]
    /\ outcome' = [NoOutcome EXCEPT !.op = "calculate_pending_rewards"]
    /\ UNCHANGED <<clock, last, oracleVars, stakingVars, reputationVars,
                   credentialVars, identityVars>>

\* pending_rewards = pending_rewards.checked_add(pending)?
SettlePending ==
    /\ calc.phase = "calculated"
    /\ LET res == CheckedAddU64(calc.pending_rewards, calc.pending)
       IN  calc' = [calc EXCEPT !.phase = IF res.err = "Ok" THEN "settled" ELSE "failed",
                                !.err = res.err,
                                !.pending_rewards = IF res.err = "Ok" THEN res.value ELSE @]
    /\ outcome' = [NoOutcome EXCEPT !.op = "settle"]
    /\ UNCHANGED <<clock, last, oracleVars, stakingVars, reputationVars,
                   credentialVars, identityVars>>

NextWide == CalculatePending \/ SettlePending

SpecWide == InitWide /\ [][NextWide]_vars

(***************************************************************************)
(* Properties                                                              *)
(***************************************************************************)
Open(request) == request.status = "Pending" \/ request.status = "InProgress"

Finalized(request) == request.status = "Verified" \/ request.status = "Rejected"

Votes(request) == request.confirmations + request.rejections

\* the moves of the request state machine
AllowedStatusMove(a, b) ==
    \/ a = "Pending" /\ b = "InProgress"
    \/ a = "InProgress" /\ b \in {"Verified", "Rejected"}
    \/ a \in {"Pending", "InProgress"} /\ b = "Expired"

\* C1: a request is created Pending, its account is never removed, every
\* change of its status is Pending -> InProgress, InProgress -> Verified or
\* Rejected, or Pending/InProgress -> Expired, and a request that is
\* Verified, Rejected or Expired keeps its status in every step.
C1_StatusStateMachine ==
    [][\A rk \in RequestKeys :
          /\ ~requests[rk].init /\ requests'[rk].init
                => requests'[rk].status = "Pending"
          /\ requests[rk].init
                => /\ requests'[rk].init
                   /\ \/ requests'[rk].status = requests[rk].status
                      \/ AllowedStatusMove(requests[rk].status, requests'[rk].status)
                   /\ requests[rk].status \in {"Verified", "Rejected", "Expired"}
                         => requests'[rk].status = requests[rk].status]_vars

\* C1 witness: a request that had votes (InProgress) has just been expired
C1_Witness ==
    /\ last.op = "expire_verification" /\ last.err = "Ok"
    /\ requests[last.request].status = "Expired"
    /\ Len(requests[last.request].responded_oracles) > 0

\* C2: a request's result changes only in a successful finalize_verification
\* of that request, which takes it from None to Some(_); so it is None until
\* then, set once, and no later submit, finalize or expire changes it.  A
\* successful finalize always sets it.
C2_ResultSetOnce ==
    [][\A rk \in RequestKeys :
          /\ requests'[rk].result # requests[rk].result
                => /\ requests[rk].result = "None"
                   /\ requests'[rk].result \in {"SomeTrue", "SomeFalse"}
                   /\ last'.op = "finalize_verification"
                   /\ last'.err = "Ok"
                   /\ last'.request = rk
          /\ (last'.op = "finalize_verification" /\ last'.err = "Ok"
                /\ last'.request = rk)
                => /\ requests[rk].result = "None"
                   /\ requests'[rk].result # "None"
          /\ requests[rk].result # "None" => Finalized(requests[rk])]_vars

\* C2 witness: a finalized request, holding its result, on which a later
\* expire_verification was tried after the deadline
C2_Witness ==
    /\ last.op = "expire_verification"
    /\ last.err # "Ok"
    /\ requests[last.request].result = "SomeTrue"
    /\ clock > requests[last.request].deadline

\* C3 as claimed: finalize_verification on a request that is Verified or
\* Rejected fails with AlreadyFinalized and leaves the accounts unchanged.
C3_FinalizeTwiceAlreadyFinalized ==
    \A rk \in RequestKeys, i \in Identities, s \in SignerKeys :
        (requests[rk].init /\ Finalized(requests[rk]))
            => /\ finalize_verification(St, rk, i, s).err = "AlreadyFinalized"
               /\ finalize_verification(St, rk, i, s).st = St

C6_StrictMajority ==
    \A rk \in RequestKeys, i \in Identities, s \in SignerKeys :
        LET res == finalize_verification(St, rk, i, s)
            before == requests[rk]
            after == res.st.requests[rk]
        IN
        res.err = "Ok"
            => /\ after.confirmations = before.confirmations
               /\ after.rejections = before.rejections
               /\ before.confirmations > before.rejections
                     => after.result = "SomeTrue" /\ after.status = "Verified"
               /\ before.confirmations <= before.rejections
                     => after.result = "SomeFalse" /\ after.status = "Rejected"

\* C6 witness: under a quorum of 3 a request with 2 confirmations and 1
\* rejection has just been finalized Verified
C6_Witness ==
    /\ last.op = "finalize_verification" /\ last.err = "Ok"
    /\ config.required_confirmations = 3
    /\ requests[last.request].confirmations = 2
    /\ requests[last.request].rejections = 1
    /\ requests[last.request].status = "Verified"
    /\ requests[last.request].result = "SomeTrue"

\* C6, the other cases of the claim: 1 confirmation and 2 rejections under a
\* quorum of 3 finalized Rejected, and a tie finalized Rejected
C6_RejectedReached ==
    /\ last.op = "finalize_verification" /\ last.err = "Ok"
    /\ config.required_confirmations = 3
    /\ requests[last.request].confirmations = 1
    /\ requests[last.request].rejections = 2
    /\ requests[last.request].status = "Rejected"

C6_TieReached ==
    /\ last.op = "finalize_verification" /\ last.err = "Ok"
    /\ requests[last.request].confirmations = 1
    /\ requests[last.request].rejections = 1
    /\ requests[last.request].result = "SomeFalse"

\* C10: in every reachable state, for every request account:
\* expire_verification succeeds only if the request is Pending or InProgress
\* and now > deadline, and then changes nothing but that request's status, to
\* Expired, its result staying None; on a Pending or InProgress request at
\* now <= deadline it fails with DeadlineNotReached; on a Verified, Rejected
\* or Expired request it fails (the status check comes first and answers
\* AlreadyFinalized); a failed call changes nothing.
C10_ExpireGuard ==
    \A rk \in RequestKeys :
        LET res == expire_verification(St, rk, clock)
            request == requests[rk]
        IN
        request.init
            => /\ res.err = "Ok"
                    => /\ Open(request)
                       /\ clock > request.deadline
                       /\ res.st = [St EXCEPT !.requests[rk].status = "Expired"]
                       /\ res.st.requests[rk].result = "None"
               /\ (Open(request) /\ clock <= request.deadline)
                    => res.err = "DeadlineNotReached" /\ res.st = St
               /\ ~Open(request)
                    => res.err = "AlreadyFinalized" /\ res.st = St

\* C10 witness: expire_verification has just failed at now = deadline on a
\* request that is still InProgress
C10_Witness ==
    /\ last.op = "expire_verification"
    /\ last.err = "DeadlineNotReached"
    /\ requests[last.request].status = "InProgress"
    /\ clock = requests[last.request].deadline

\* no key twice in the responding set, and at most MAX_ORACLES keys
RespondersDistinct(request) ==
    \A i, j \in 1..Len(request.responded_oracles) :
        request.responded_oracles[i] = request.responded_oracles[j] => i = j

RespondersBounded(request) == Len(request.responded_oracles) <= MAX_ORACLES

\* a vote that passes every check of the handler made before the two the
\* claim C4 is about: a registered Active oracle, an open request, in time
VoteInTime(o, rk) ==
    /\ oracle_nodes[o].init /\ oracle_nodes[o].status = "Active"
    /\ requests[rk].init /\ Open(requests[rk])
    /\ clock <= requests[rk].deadline

C4_SecondVoteReached ==
    /\ last.op = "submit_verification"
    /\ last.err = "AccountAlreadyInUse"
    /\ Contains(requests[last.request].responded_oracles, last.oracle)

\* the conditions under which the claim C7 has submit_verification rejected
SubmitRejectCase(o, rk) ==
    \/ oracle_nodes[o].status # "Active"
    \/ ~Open(requests[rk])
    \/ clock > requests[rk].deadline
    \/ Contains(requests[rk].responded_oracles, o)
    \/ Len(requests[rk].responded_oracles) >= MAX_ORACLES

\* C7: in every reachable state, a submit_verification by any oracle on any
\* request account fails and changes no account (counters, responder set,
\* status, oracle stats) if the oracle is not Active, the request is not
\* Pending/InProgress, now > deadline, the oracle is in the responder set, or
\* the set holds 10 keys; and with none of these, at now = deadline, the vote
\* is accepted.
C7_SubmitRejections ==
    \A o \in OracleKeys, rk \in RequestKeys, v \in BOOLEAN :
        LET res == submit_verification(St, o, rk, v, clock) IN
        (oracle_nodes[o].init /\ requests[rk].init)
            => /\ SubmitRejectCase(o, rk) => res.err # "Ok" /\ res.st = St
               /\ (~SubmitRejectCase(o, rk) /\ clock = requests[rk].deadline)
                     => /\ res.err = "Ok"
                        /\ Contains(res.st.requests[rk].responded_oracles, o)

\* C7 witness: a vote cast at now = deadline > 0 has just been accepted
C7_Witness ==
    /\ last.op = "submit_verification" /\ last.err = "Ok"
    /\ clock = requests[last.request].deadline
    /\ clock > 0

\* C7, the rejections reached: each of the five causes has just rejected a vote
C7_NotActiveReached ==
    last.op = "submit_verification" /\ last.err = "OracleNotActive"

C7_NotPendingReached ==
    last.op = "submit_verification" /\ last.err = "RequestNotPending"

C7_ExpiredReached ==
    /\ last.op = "submit_verification" /\ last.err = "RequestExpired"
    /\ clock = requests[last.request].deadline + 1

\* C8 as claimed: once an oracle node's status is Slashed, no register_oracle,
\* deregister_oracle, slash_oracle or submit_verification changes it.
C8_SlashedIsTerminal ==
    [][\A o \in OracleKeys :
          oracle_nodes[o].status = "Slashed" => oracle_nodes'[o].status = "Slashed"]_vars

\* a node that has been slashed a 3rd time: slash_count only grows, and a
\* node account is never created twice
SlashedThrice(o) == oracle_nodes[o].init /\ oracle_nodes[o].slash_count >= SLASH_THRESHOLD

C9_ThirdSlashReached ==
    /\ last.op = "slash_oracle" /\ last.err = "Ok"
    /\ oracle_nodes[last.oracle].slash_count = SLASH_THRESHOLD
    /\ oracle_nodes[last.oracle].status = "Slashed"

(***************************************************************************)
(* C11: the identity's verification bitmap                                 *)
(***************************************************************************)
\* C11: an identity's verification bitmap changes only in a successful
\* finalize_verification whose result is true, and then by setting exactly
\* the bit of the finalized request's verification_type; submit_verification,
\* expire_verification, failed finalize calls and a finalize with result
\* false leave every identity's bitmap as it was.
C11_BitmapOnlyByFinalize ==
    [][\A i \in Identities :
          verification_bitmap'[i] # verification_bitmap[i]
              => /\ last'.op = "finalize_verification"
                 /\ last'.err = "Ok"
                 /\ requests'[last'.request].result = "SomeTrue"
                 /\ requests[last'.request].status = "InProgress"
                 /\ verification_bitmap'[i] =
                        verification_bitmap[i]
                            \cup {requests[last'.request].verification_type}]_vars

\* C11 witness: a finalize with result true has set the bit of the request's
\* type, after votes were submitted that left the bitmap empty
C11_Witness ==
    /\ last.op = "finalize_verification" /\ last.err = "Ok"
    /\ requests[last.request].result = "SomeTrue"
    /\ requests[last.request].rejections > 0
    /\ \E i \in Identities :
          verification_bitmap[i] = {requests[last.request].verification_type}

\* C11, the other cases: a finalize with result false, a failed finalize and
\* an expire have happened with every bitmap still empty
C11_RejectedKeepsBitmap ==
    /\ last.op = "finalize_verification" /\ last.err = "Ok"
    /\ requests[last.request].result = "SomeFalse"
    /\ \A i \in Identities : verification_bitmap[i] = {}

C11_ExpiredKeepsBitmap ==
    /\ last.op = "expire_verification" /\ last.err = "Ok"
    /\ \A i \in Identities : verification_bitmap[i] = {}

(***************************************************************************)
(* Properties of the staking pool                                          *)
(***************************************************************************)
\* the instructions that change or pay out a stake
StakeMutations == {"stake", "complete_unstake", "claim_rewards", "slash"}

\* staked_amount * acc_reward_per_share / 10^12, in integers
DebtAt(staked_amount, acc) ==
    DecValue(DecShiftRight(DecMul(acc, staked_amount), REWARD_PRECISION_DIGITS))

\* the rewards an account is owed at the accumulator acc
OwedAt(stake_account, acc) ==
    IF DebtAt(stake_account.staked_amount, acc) >= stake_account.reward_debt
    THEN DebtAt(stake_account.staked_amount, acc) - stake_account.reward_debt
    ELSE 0

\* C12: right after every successful stake, complete_unstake and slash, the
\* stake account it acted on has reward_debt = staked_amount *
\* acc_reward_per_share / 10^12 (integer division) for the pool's accumulator.
C12_RewardDebtInvariant ==
    (outcome.err = "Ok" /\ outcome.op \in {"stake", "complete_unstake", "slash"})
        => stake_accounts[outcome.account].reward_debt =
               DebtAt(stake_accounts[outcome.account].staked_amount,
                      pool.acc_reward_per_share)

\* C12 witness: a stake on top of an earlier stake, after rewards accrued,
\* has left a reward_debt that is not zero
C12_Witness ==
    /\ outcome.op = "stake" /\ outcome.err = "Ok"
    /\ stake_accounts[outcome.account].staked_amount > outcome.amount
    /\ stake_accounts[outcome.account].reward_debt > 0

\* C12, the other operations: a slash and a complete_unstake that left a
\* stake behind, at an accumulator that is not zero
C12_SlashReached ==
    /\ outcome.op = "slash" /\ outcome.err = "Ok"
    /\ stake_accounts[outcome.account].staked_amount > 0
    /\ pool.acc_reward_per_share # <<>>

C12_UnstakeReached ==
    /\ outcome.op = "complete_unstake" /\ outcome.err = "Ok"
    /\ stake_accounts[outcome.account].staked_amount > 0
    /\ pool.acc_reward_per_share # <<>>

CooldownEnd(stake_account) == stake_account.unstake_requested_at + pool.unstake_cooldown

\* C14 as claimed: with an unstake request pending, complete_unstake fails
\* with CooldownNotElapsed while now < requested_at + cooldown, and succeeds
\* at now = requested_at + cooldown if the pool is not paused, whatever
\* happened to the account since the request.
C14_UnstakeAtCooldown ==
    \A s \in Stakers :
        (stake_accounts[s].init /\ stake_accounts[s].unstake_requested_at # 0
           /\ ~pool.paused)
            => /\ clock < CooldownEnd(stake_accounts[s])
                     => complete_unstake(StakeSt, s, clock).err = "CooldownNotElapsed"
               /\ clock = CooldownEnd(stake_accounts[s])
                     => complete_unstake(StakeSt, s, clock).err = "Ok"

\* C14, the case that fails: a request is due whose amount a slash has taken
C14_SlashedRequestDue ==
    \E s \in Stakers :
        /\ stake_accounts[s].unstake_requested_at # 0
        /\ clock = CooldownEnd(stake_accounts[s])
        /\ stake_accounts[s].staked_amount < stake_accounts[s].unstake_amount

\* C15 as claimed: the rewards paid by claim_rewards never exceed the reward
\* accrued by the pool, the sum over the elapsed intervals of elapsed *
\* reward_rate_bps * total_staked / (seconds_per_year * 10000); stated
\* without division as paid * seconds_per_year * 10000 <= the sum of
\* elapsed * reward_rate_bps * total_staked.
C15_PaidWithinAccrued ==
    DecLeq(DecMul(DecMul(DecOf(ledger.paid), SECONDS_PER_YEAR), BPS_DENOMINATOR),
           ledger.accrued)

\* C16: with reward_rate_bps = 1000, a staker who has just staked 1_000_000
\* into an empty pool with nothing pending, and who claims exactly 365 days
\* later with no operation in between, is paid 100_000.
C16_OneYearReward ==
    \A s \in Stakers :
        (/\ outcome.op = "stake" /\ outcome.err = "Ok" /\ outcome.account = s
         /\ stake_accounts[s].staked_amount = 1000000
         /\ stake_accounts[s].pending_rewards = 0
         /\ pool.total_staked = 1000000
         /\ pool.reward_rate_bps = 1000)
            => LET res == claim_rewards(StakeSt, s, clock + SECONDS_PER_YEAR) IN
               /\ res.err = "Ok"
               /\ res.st.lamports[s] - lamports[s] = 100000
               /\ res.st.lamports[PoolVault] = lamports[PoolVault] - 100000

\* C16 witness: the only staker, who staked 1_000_000 at the start, has
\* claimed for the first time exactly one year later and received 100_000
C16_Witness ==
    \E s \in Stakers :
        /\ outcome.op = "claim_rewards" /\ outcome.err = "Ok" /\ outcome.account = s
        /\ clock = StartTime + SECONDS_PER_YEAR
        /\ stake_accounts[s].staked_amount = 1000000
        /\ pool.total_staked = 1000000
        /\ \A o \in Stakers \ {s} : ~stake_accounts[o].init
        /\ stake_accounts[s].total_rewards_claimed = 100000
        /\ ledger.paid = 100000
        /\ lamports[s] = 100000

\* C20: on an existing stake account, a slash signed by a key other than the
\* pool's verification_oracle fails with UnauthorizedSlash and changes no
\* account, so it creates no SlashRecord; a slash that succeeds is signed by
\* the pool's verification_oracle.
C20_SlashOnlyByOracle ==
    \A k \in SlashSigners, s \in Stakers, a \in SlashAmounts, r \in SlashReasons :
        LET res == slash(StakeSt, k, s, a, r, clock) IN
        stake_accounts[s].init
            => /\ k # pool.verification_oracle
                     => res.err = "UnauthorizedSlash" /\ res.st = StakeSt
               /\ res.err = "Ok" => k = pool.verification_oracle

\* C20 witness: a slash of an amount the account holds, signed by another
\* key, has just been refused, with no SlashRecord in existence
C20_Witness ==
    /\ outcome.op = "slash" /\ outcome.err = "UnauthorizedSlash"
    /\ outcome.signer # pool.verification_oracle
    /\ outcome.amount > 0
    /\ stake_accounts[outcome.account].staked_amount >= outcome.amount
    /\ slash_records = {}

\* C20, the other case: the pool's verification_oracle has slashed
C20_AuthorizedReached ==
    /\ outcome.op = "slash" /\ outcome.err = "Ok"
    /\ outcome.signer = pool.verification_oracle
    /\ slash_records # {}

(***************************************************************************)
(* Properties of the reputation engine                                     *)
(***************************************************************************)
\* C17: every reputation account's score lies within [min_score, max_score],
\* so that its tier is the tier of a score in that range
C17_ScoreInRange ==
    \A i \in Identities :
        reputation_accounts[i].init =>
            /\ MIN_SCORE <= reputation_accounts[i].score
            /\ reputation_accounts[i].score <= MAX_SCORE

\* a recorded event has raised a score of at most MAX_SCORE
C17_EventRecorded ==
    /\ outcome.op \in {"record_verification", "record_credential", "record_activity"}
    /\ outcome.err = "Ok"
    /\ reputation_accounts[outcome.account].score > 500

\* the times at or after the current one
LaterTimes == {t \in RepTimes : t >= clock}

\* C18: applying the time decay never raises a score and never takes it
\* below min_score, and applied less than a day after the account's last
\* event it leaves the score and its tier as they are
C18_DecayMonotone ==
    \A i \in Identities : \A t \in LaterTimes :
        reputation_accounts[i].init =>
            LET before == reputation_accounts[i]
                after == apply_time_decay(before, reputation_config, t)
            IN  /\ after.score <= before.score
                /\ after.score >= MIN_SCORE
                /\ after.last_updated = before.last_updated
                /\ t - before.last_updated < DaySeconds =>
                       /\ after.score = before.score
                       /\ from_score(after.score) = from_score(before.score)

\* an event was recorded one decay period after the previous one, so that the
\* decay lowered the score, and the same day is not over
C18_Witness ==
    /\ outcome.op = "record_activity"
    /\ outcome.err = "Ok"
    /\ outcome.amount = 3
    /\ reputation_accounts[outcome.account].score = 495
    /\ reputation_accounts[outcome.account].last_updated = clock
    /\ \E t \in LaterTimes : t > clock /\ t - clock < DaySeconds

\* the decay takes a score down to zero and no further
C18_FloorReached ==
    \E i \in Identities : \E t \in LaterTimes :
        /\ reputation_accounts[i].init
        /\ reputation_accounts[i].score > 0
        /\ reputation_accounts[i].score < reputation_config.decay_rate
        /\ apply_time_decay(reputation_accounts[i], reputation_config, t).score = 0

(***************************************************************************)
(* Properties of failed instructions                                       *)
(***************************************************************************)
\* the accounts of the four programs, the balances included
AccountVars ==
    <<config, oracle_nodes, requests, responses, verification_bitmap, fee_vault,
      pool, stake_accounts, slash_records, lamports,
      reputation_config, reputation_accounts, credential_config, credentials>>

C19_ExpiredReached ==
    /\ outcome.op = "reactivate_credential"
    /\ outcome.err = "CredentialExpired"
    /\ credentials[outcome.account].status = "Suspended"

\* finalize_verification has failed in the call of the identity registry,
\* made after the request was finalized
C19_CpiFailureReached ==
    /\ last.op = "finalize_verification"
    /\ last.err \in {"UnauthorizedOracle", "InvalidVerificationType"}

(***************************************************************************)
(* Properties of the identity registry                                     *)
(***************************************************************************)
\* the step was a successful call of op on identity i signed by signer
IdentityCall(op, signer, i) ==
    /\ outcome'.op = op
    /\ outcome'.err = "Ok"
    /\ outcome'.signer = signer
    /\ outcome'.account = i

\* C21: the verification bitmap of an identity changes only in an
\* update_verification_status signed by the configured verification oracle and
\* its reputation score only in an update_reputation signed by the configured
\* reputation engine; the same calls by another signer fail and leave the
\* identity as it was
C21_OnlyConfiguredSigners ==
    [][\A i \in Identities :
          /\ (identity_accounts[i].init
                 /\ verification_bitmap'[i] # verification_bitmap[i])
                => IdentityCall("update_verification_status",
                                IdentityVerificationOracle, i)
          /\ (identity_accounts[i].init
                 /\ identity_accounts'[i].reputation_score
                        # identity_accounts[i].reputation_score)
                => IdentityCall("update_reputation", IdentityReputationEngine, i)
          /\ (outcome'.account = i
                 /\ \/ outcome'.op = "update_verification_status"
                          /\ outcome'.signer # IdentityVerificationOracle
                    \/ outcome'.op = "update_reputation"
                          /\ outcome'.signer # IdentityReputationEngine)
                => /\ outcome'.err # "Ok"
                   /\ identity_accounts'[i] = identity_accounts[i]
                   /\ verification_bitmap'[i] = verification_bitmap[i]]_vars

\* the reputation engine has set a new score on an identity whose bit the
\* verification oracle had set
C21_Witness ==
    /\ outcome.op = "update_reputation"
    /\ outcome.err = "Ok"
    /\ outcome.signer = IdentityReputationEngine
    /\ identity_accounts[outcome.account].reputation_score = 700
    /\ verification_bitmap[outcome.account] = {0}

\* another signer's update_reputation was refused
C21_RefusedReached ==
    /\ outcome.op = "update_reputation"
    /\ outcome.err = "UnauthorizedReputationEngine"
    /\ identity_accounts[outcome.account].init

\* another signer's update_verification_status was refused
C21_OracleRefusedReached ==
    /\ outcome.op = "update_verification_status"
    /\ outcome.err = "UnauthorizedOracle"
    /\ identity_accounts[outcome.account].init

(***************************************************************************)
(* Properties of slashing across the programs                              *)
(***************************************************************************)
\* C22: a slash_oracle that advances an oracle's slash_count also slashes the
\* oracle's stake account and lowers its reputation score, in the same step
C22_SlashReachesStake ==
    [][\A o \in ProgramOracles :
          oracle_nodes'[o].slash_count > oracle_nodes[o].slash_count
            => /\ stake_accounts'[StakeAccountOf(o)].slash_count
                     = stake_accounts[StakeAccountOf(o)].slash_count + 1
               /\ reputation_accounts'[ReputationOf(o)].score
                     < reputation_accounts[ReputationOf(o)].score]_vars

\* an oracle with a stake and a reputation has been slashed by the oracle
\* program: its stake and its score are what they were
C22_SlashedOracleKeepsStake ==
    /\ last.op = "slash_oracle"
    /\ last.err = "Ok"
    /\ oracle_nodes[last.oracle].slash_count = 1
    /\ stake_accounts[StakeAccountOf(last.oracle)].staked_amount = 10
    /\ stake_accounts[StakeAccountOf(last.oracle)].slash_count = 0
    /\ reputation_accounts[ReputationOf(last.oracle)].init
    /\ reputation_accounts[ReputationOf(last.oracle)].score = 500

(***************************************************************************)
(* Properties of the reward computation on values of full width            *)
(***************************************************************************)
\* staked_amount * acc_reward_per_share / PRECISION - reward_debt, or zero
\* where the debt is larger, without any limit of width
ExactPending ==
    LET acc_reward == DecShiftRight(DecMulDec(calc.staked_amount,
                                              calc.acc_reward_per_share),
                                    REWARD_PRECISION_DIGITS)
    IN  IF DecLeq(calc.reward_debt, acc_reward)
        THEN DecSub(acc_reward, calc.reward_debt) ELSE <<>>

\* C23: a reward computation whose pending reward does not fit a u64 fails;
\* one that returns Ok holds the exact pending reward
C23_NoSilentTruncation ==
    calc.phase = "calculated" => calc.pending = ExactPending

\* a pending reward of 2^64 or more was computed and the computation
\* returned Ok
C23_TruncatedReached ==
    /\ calc.phase = "calculated"
    /\ DecLeq(U64_LIMIT, ExactPending)

\* the checked operations around it do fail: the product that is no u128
\* and the sum that is no u64
C23_OverflowReached ==
    /\ calc.phase = "failed"
    /\ calc.err = "Overflow"

(***************************************************************************)
(* Properties of a request's end                                           *)
(***************************************************************************)
NonTerminal(rk) ==
    requests[rk].init /\ requests[rk].status \in {"Pending", "InProgress"}

Terminal(rk) ==
    requests[rk].init /\ requests[rk].status \in {"Verified", "Rejected", "Expired"}

\* an expire_verification call on a request that is Pending or InProgress
\* past its deadline succeeds and leaves the request Expired
ExpireSucceedsPastDeadline ==
    \A rk \in MainRequests :
        (/\ last'.op = "expire_verification"
         /\ last'.request = rk
         /\ NonTerminal(rk)
         /\ clock > requests[rk].deadline)
        => (last'.err = "Ok" /\ requests'[rk].status = "Expired")

\* C24: no request stays Pending or InProgress forever: past the deadline an
\* expire_verification call on it succeeds, and with the time advancing and
\* expire_verification called again and again every request ends Verified,
\* Rejected or Expired
C24_EveryRequestEnds ==
    /\ \A rk \in MainRequests : NonTerminal(rk) ~> Terminal(rk)
    /\ [][ExpireSucceedsPastDeadline]_vars

\* a request with a vote was expired past its deadline
C24_Witness ==
    \E rk \in MainRequests :
        /\ last.op = "expire_verification"
        /\ last.request = rk
        /\ last.err = "Ok"
        /\ requests[rk].status = "Expired"
        /\ Len(requests[rk].responded_oracles) > 0
        /\ clock > requests[rk].deadline

\* a request without votes was expired past its deadline
C24_PendingExpired ==
    \E rk \in MainRequests :
        /\ last.op = "expire_verification"
        /\ last.err = "Ok"
        /\ requests[rk].status = "Expired"
        /\ Len(requests[rk].responded_oracles) = 0

(***************************************************************************)
(* Properties of the count of active oracles                               *)
(***************************************************************************)
ActiveNodes == {o \in OracleKeys : oracle_nodes[o].init /\ oracle_nodes[o].status = "Active"}

\* C25 as claimed: in every state reached by register_oracle,
\* deregister_oracle and slash_oracle calls, config.active_oracle_count is
\* the number of oracle nodes whose status is Active.
C25_ActiveCountExact == config.active_oracle_count = Cardinality(ActiveNodes)

\* a 4th slash of a Slashed node has lowered the count below the number of
\* Active nodes
C25_SlashedAgainReached ==
    /\ last.op = "slash_oracle" /\ last.err = "Ok"
    /\ oracle_nodes[last.oracle].slash_count > SLASH_THRESHOLD
    /\ config.active_oracle_count < Cardinality(ActiveNodes)

\* deregistering a node that was not Active has lowered the count below the
\* number of Active nodes
C25_DeregisteredAgainReached ==
    /\ last.op = "deregister_oracle" /\ last.err = "Ok"
    /\ config.active_oracle_count < Cardinality(ActiveNodes)

(***************************************************************************)
(* Properties of a request's status and its votes                          *)
(***************************************************************************)
RecordedVotes(rk) == {o \in OracleKeys : responses[rk][o].init}

\* C26: a request is Pending only if no oracle has voted on it, a request
\* that is InProgress, Verified or Rejected has at least one recorded vote,
\* and an accepted vote leaves the request InProgress
C26_PendingIffNoVotes ==
    /\ \A rk \in RequestKeys :
          requests[rk].init =>
              /\ requests[rk].status = "Pending" =>
                     /\ RecordedVotes(rk) = {}
                     /\ requests[rk].responded_oracles = <<>>
                     /\ requests[rk].confirmations + requests[rk].rejections = 0
              /\ requests[rk].status \in {"InProgress", "Verified", "Rejected"} =>
                     /\ RecordedVotes(rk) # {}
                     /\ Len(requests[rk].responded_oracles) >= 1
                     /\ requests[rk].confirmations + requests[rk].rejections >= 1
    /\ (last.op = "submit_verification" /\ last.err = "Ok")
          => requests[last.request].status = "InProgress"

\* the first vote on a Pending request has just been accepted
C26_Witness ==
    /\ last.op = "submit_verification" /\ last.err = "Ok"
    /\ Len(requests[last.request].responded_oracles) = 1
    /\ requests[last.request].status = "InProgress"

\* a request finalized with its votes recorded
C26_FinalizedReached ==
    \E rk \in MainRequests :
        /\ requests[rk].status \in {"Verified", "Rejected"}
        /\ Cardinality(RecordedVotes(rk)) >= 2

(***************************************************************************)
(* Properties of the OracleResponse records                                *)
(***************************************************************************)
ResponsePairs == RequestKeys \X OracleKeys

\* the step is an accepted vote of oracle o on request rk
AcceptedVote(rk, o) ==
    /\ last'.op = "submit_verification"
    /\ last'.err = "Ok"
    /\ last'.request = rk
    /\ last'.oracle = o

\* C27: a response record exists for exactly the (request, oracle) pairs that
\* voted; a record is created only by that oracle's accepted vote on that
\* request, one record per vote, holding the request, the oracle and the
\* vote; a second submit_verification for the pair fails at the init
\* constraint and changes nothing; no step modifies an existing record
C27_OneResponsePerVote ==
    [][\A p \in ResponsePairs :
          LET rk == p[1]
              o == p[2]
          IN
          /\ responses[rk][o].init <=> Contains(requests[rk].responded_oracles, o)
          /\ responses[rk][o].init => responses'[rk][o] = responses[rk][o]
          /\ responses[rk][o].init =>
                 \A v \in BOOLEAN :
                     /\ submit_verification(St, o, rk, v, clock).err = "AccountAlreadyInUse"
                     /\ submit_verification(St, o, rk, v, clock).st = St
          /\ AcceptedVote(rk, o) =>
                 /\ ~responses[rk][o].init
                 /\ responses'[rk][o].init
                 /\ \A q \in ResponsePairs \ {p} :
                        responses'[q[1]][q[2]] = responses[q[1]][q[2]]
          /\ (~responses[rk][o].init /\ responses'[rk][o].init) =>
                 /\ AcceptedVote(rk, o)
                 /\ responses'[rk][o].request = rk
                 /\ responses'[rk][o].oracle = o
                 /\ responses'[rk][o].verified <=>
                        requests'[rk].confirmations = requests[rk].confirmations + 1]_vars

\* an oracle that has voted on a request has just been refused a second vote
\* on it, while another oracle's opposite vote is on record
C27_Witness ==
    /\ last.op = "submit_verification"
    /\ last.err = "AccountAlreadyInUse"
    /\ responses[last.request][last.oracle].init
    /\ \E o \in OracleKeys :
          /\ responses[last.request][o].init
          /\ responses[last.request][o].verified # responses[last.request][last.oracle].verified

(***************************************************************************)
(* Properties of request_unstake                                           *)
(***************************************************************************)
\* the step is a request_unstake call of staker s for amount a
RequestUnstakeCall(s, a) ==
    /\ outcome'.op = "request_unstake"
    /\ outcome'.account = s
    /\ outcome'.amount = a

\* C28: request_unstake fails when an unstake request is pending, when the
\* amount is 0 and when the amount exceeds staked_amount; a failed call
\* changes nothing; a successful call sets unstake_requested_at to the time
\* of the call and unstake_amount to the amount, and leaves the rest of the
\* stake account, the other accounts, the pool and the balances unchanged
C28_RequestUnstakeFrame ==
    [][\A s \in Stakers, a \in UnstakeAmounts :
          RequestUnstakeCall(s, a) =>
              /\ (\/ stake_accounts[s].unstake_requested_at # 0
                  \/ a = 0
                  \/ a > stake_accounts[s].staked_amount) => outcome'.err # "Ok"
              /\ outcome'.err # "Ok" => UNCHANGED stakingVars
              /\ outcome'.err = "Ok" =>
                     /\ stake_accounts' =
                            [stake_accounts EXCEPT ![s].unstake_requested_at = clock,
                                                   ![s].unstake_amount = a]
                     /\ UNCHANGED <<pool, lamports, slash_records, ledger>>]_vars

\* an unstake request has just been recorded on an account that keeps its
\* stake and its accrued reward
C28_Witness ==
    /\ outcome.op = "request_unstake"
    /\ outcome.err = "Ok"
    /\ stake_accounts[outcome.account].unstake_requested_at = clock
    /\ stake_accounts[outcome.account].unstake_amount = outcome.amount
    /\ stake_accounts[outcome.account].staked_amount > outcome.amount
    /\ stake_accounts[outcome.account].pending_rewards > 0

\* a second request while one is pending has just been refused
C28_PendingRefused ==
    /\ outcome.op = "request_unstake"
    /\ outcome.err = "UnstakeAlreadyRequested"

\* a request for more than the stake has just been refused
C28_ExcessRefused ==
    /\ outcome.op = "request_unstake"
    /\ outcome.err = "ExcessiveUnstakeAmount"

\* a request for nothing has just been refused
C28_ZeroRefused ==
    /\ outcome.op = "request_unstake"
    /\ outcome.err = "InsufficientStakedBalance"

(***************************************************************************)
(* Properties of the staking slash                                         *)
(***************************************************************************)
SlashRecordsOf(records, s) == {r \in records : r.staker = s}

\* the step is a slash of staker s by amount a
SlashCall(s, a) ==
    /\ outcome'.op = "slash"
    /\ outcome'.account = s
    /\ outcome'.amount = a

\* C29: a slash whose amount is 0 or exceeds staked_amount fails and changes
\* nothing; a successful slash lowers the account's staked_amount and the
\* pool's total_staked by the amount, raises slash_count by one and adds one
\* SlashRecord of that staker and amount; an account has as many SlashRecords
\* as its slash_count says; no step removes or changes a SlashRecord
C29_SlashRecorded ==
    [][/\ \A s \in Stakers, a \in SlashAmounts :
             SlashCall(s, a) =>
                 /\ (a = 0 \/ a > stake_accounts[s].staked_amount) =>
                        (outcome'.err # "Ok" /\ UNCHANGED stakingVars)
                 /\ outcome'.err = "Ok" =>
                        /\ stake_accounts'[s].staked_amount =
                               stake_accounts[s].staked_amount - a
                        /\ pool'.total_staked = pool.total_staked - a
                        /\ stake_accounts'[s].slash_count =
                               stake_accounts[s].slash_count + 1
                        /\ \E r \in slash_records' \ slash_records :
                               /\ slash_records' = slash_records \cup {r}
                               /\ r.staker = s
                               /\ r.amount = a
       /\ slash_records \subseteq slash_records'
       /\ \A s \in Stakers :
             /\ Cardinality(SlashRecordsOf(slash_records, s)) = stake_accounts[s].slash_count
             /\ Cardinality(SlashRecordsOf(slash_records', s)) = stake_accounts'[s].slash_count
             /\ slash_records' # slash_records => outcome'.op = "slash"]_vars

\* an account has just been slashed a second time and has two records
C29_Witness ==
    /\ outcome.op = "slash"
    /\ outcome.err = "Ok"
    /\ stake_accounts[outcome.account].slash_count = 2
    /\ Cardinality(SlashRecordsOf(slash_records, outcome.account)) = 2

\* a slash for more than the stake has just been refused
C29_ExcessRefused ==
    /\ outcome.op = "slash"
    /\ outcome.err = "InvalidSlashAmount"
    /\ outcome.amount > stake_accounts[outcome.account].staked_amount
    /\ stake_accounts[outcome.account].init

(***************************************************************************)
(* Properties of update_pool_rewards                                       *)
(***************************************************************************)
\* (elapsed * reward_rate_bps * total_staked / seconds_per_year / 10000)
\* * PRECISION / total_staked, every division rounding down
AccumulatorGrowth(elapsed, reward_rate_bps, total_staked) ==
    LET product == DecMul(DecMul(DecOf(elapsed), reward_rate_bps), total_staked)
        reward == DecDiv(DecDiv(product, SECONDS_PER_YEAR), BPS_DENOMINATOR)
    IN  DecDiv(DecShiftLeft(reward, REWARD_PRECISION_DIGITS), total_staked)

\* the step is a successful instruction that calls update_pool_rewards
PoolUpdated == outcome'.err = "Ok" /\ outcome'.op \in StakeMutations

\* C30: while total_staked is 0 no step changes acc_reward_per_share, an
\* instruction that updates the pool only sets last_reward_distribution to
\* the time of the call, and a stake into the empty pool settles no reward;
\* with total_staked > 0 an instruction that updates the pool after some
\* time has passed adds (elapsed * reward_rate_bps * total_staked /
\* seconds_per_year / 10000) * PRECISION / total_staked to
\* acc_reward_per_share; no other step changes the accumulator
C30_PoolRewardsUpdate ==
    [][/\ pool.total_staked = 0 =>
             /\ pool'.acc_reward_per_share = pool.acc_reward_per_share
             /\ PoolUpdated => pool'.last_reward_distribution = clock
             /\ (PoolUpdated /\ outcome'.op = "stake") =>
                    stake_accounts'[outcome'.account].pending_rewards =
                        stake_accounts[outcome'.account].pending_rewards
       /\ (pool.total_staked > 0 /\ PoolUpdated) =>
             IF clock > pool.last_reward_distribution
             THEN /\ pool'.acc_reward_per_share =
                        DecAdd(pool.acc_reward_per_share,
                               AccumulatorGrowth(clock - pool.last_reward_distribution,
                                                 pool.reward_rate_bps, pool.total_staked))
                  /\ pool'.last_reward_distribution = clock
             ELSE /\ pool'.acc_reward_per_share = pool.acc_reward_per_share
                  /\ pool'.last_reward_distribution = pool.last_reward_distribution
       /\ ~PoolUpdated =>
             /\ pool'.acc_reward_per_share = pool.acc_reward_per_share
             /\ pool'.last_reward_distribution = pool.last_reward_distribution]_vars

\* the pool was updated over an interval with stake in it and the
\* accumulator has grown
C30_Witness ==
    /\ outcome.err = "Ok"
    /\ outcome.op \in StakeMutations
    /\ pool.last_reward_distribution = clock
    /\ clock > StartTime
    /\ pool.acc_reward_per_share # <<>>

\* the first stake after a period in which the pool was empty: the
\* accumulator is as it was, the clock of the pool is at the stake, and the
\* staker has earned nothing
C30_EmptyPeriodReached ==
    /\ outcome.err = "Ok"
    /\ outcome.op = "stake"
    /\ clock > StartTime
    /\ pool.total_staked = outcome.amount
    /\ pool.last_reward_distribution = clock
    /\ pool.acc_reward_per_share = <<>>
    /\ stake_accounts[outcome.account].pending_rewards = 0

(***************************************************************************)
(* Properties of the paused pool                                           *)
(***************************************************************************)
\* the error of a call that needs the stake account of s, made while the
\* pool is paused: the account is loaded before the handler runs
PausedError(s) ==
    IF stake_accounts[s].init THEN "PoolPaused" ELSE "AccountNotInitialized"

\* the results of the four calls of staker s in the current state
PausableCalls(s) ==
    {stake(StakeSt, s, a, clock) : a \in StakeAmounts}
        \cup {request_unstake(StakeSt, s, a, clock) : a \in UnstakeAmounts}
        \cup {complete_unstake(StakeSt, s, clock), claim_rewards(StakeSt, s, clock)}

\* C31 as claimed: while the pool is paused every stake, request_unstake,
\* complete_unstake and claim_rewards call fails with PoolPaused and changes
\* nothing.
C31_AsClaimed ==
    pool.paused =>
        \A s \in Stakers : \A res \in PausableCalls(s) :
            res.err = "PoolPaused" /\ res.st = StakeSt

\* C31 amended: while the pool is paused every stake, request_unstake,
\* complete_unstake and claim_rewards call fails and changes nothing, with
\* PoolPaused when the caller's stake account exists (for stake, always) and
\* with AccountNotInitialized when it does not; set_pool_paused changes the
\* paused flag only, and while the pool is not paused no call fails with
\* PoolPaused
C31_PausedPoolRefuses ==
    [][/\ pool.paused =>
             \A s \in Stakers :
                 /\ \A a \in StakeAmounts :
                        /\ stake(StakeSt, s, a, clock).err = "PoolPaused"
                        /\ stake(StakeSt, s, a, clock).st = StakeSt
                 /\ \A res \in PausableCalls(s) :
                        /\ res.err \in {"PoolPaused", PausedError(s)}
                        /\ res.st = StakeSt
                 /\ \A a \in UnstakeAmounts :
                        request_unstake(StakeSt, s, a, clock).err = PausedError(s)
                 /\ complete_unstake(StakeSt, s, clock).err = PausedError(s)
                 /\ claim_rewards(StakeSt, s, clock).err = PausedError(s)
       /\ ~pool.paused =>
             \A s \in Stakers : \A res \in PausableCalls(s) : res.err # "PoolPaused"
       /\ outcome'.op = "set_pool_paused" =>
             /\ pool' \in {pool, [pool EXCEPT !.paused = ~@]}
             /\ UNCHANGED <<stake_accounts, slash_records, lamports, ledger>>
             /\ (outcome'.err = "Ok" /\ outcome'.signer = PoolAdmin) \/ pool' = pool]_vars

\* the pool is paused and a staker with a stake has just been refused
C31_Witness ==
    /\ pool.paused
    /\ outcome.op \in {"stake", "request_unstake", "complete_unstake", "claim_rewards"}
    /\ outcome.err = "PoolPaused"
    /\ stake_accounts[outcome.account].staked_amount > 0

\* the admin has just unpaused a pool in which an unstake request is pending
C31_UnpausedReached ==
    /\ outcome.op = "set_pool_paused"
    /\ outcome.err = "Ok"
    /\ ~pool.paused
    /\ \E s \in Stakers : stake_accounts[s].unstake_requested_at # 0

\* a call on a stake account that does not exist, refused while the pool is
\* paused
C31_NoAccountReached ==
    /\ pool.paused
    /\ outcome.op \in {"request_unstake", "complete_unstake", "claim_rewards"}
    /\ outcome.err = "AccountNotInitialized"

(***************************************************************************)
(* Properties of the tier of a score                                       *)
(***************************************************************************)
Tiers == <<"Bronze", "Silver", "Gold", "Platinum", "Diamond">>

\* the place of a tier in the order Bronze < Silver < Gold < Platinum < Diamond
TierRank(tier) == CHOOSE k \in 1..Len(Tiers) : Tiers[k] = tier

\* the tiers whose band holds the score
BandsOf(score) ==
    {t \in {"Bronze"} : score \in 0..300}
        \cup {t \in {"Silver"} : score \in 301..500}
        \cup {t \in {"Gold"} : score \in 501..700}
        \cup {t \in {"Platinum"} : score \in 701..900}
        \cup {t \in {"Diamond"} : score >= 901}

\* C32: the tier of a score is the tier of the one band that holds the
\* score (0-300 Bronze, 301-500 Silver, 501-700 Gold, 701-900 Platinum, 901
\* and above Diamond), and no lower score has a higher tier
C32_TierBands ==
    calc.phase = "computed" =>
        /\ BandsOf(calc.score) = {calc.tier}
        /\ \A lower \in 0..calc.score :
               TierRank(from_score(lower)) <= TierRank(calc.tier)

\* the tier of the last score of a band has been computed
C32_Witness ==
    /\ calc.phase = "computed"
    /\ calc.score = 300
    /\ calc.tier = "Bronze"

\* the tier of a score in the open band has been computed
C32_DiamondReached ==
    /\ calc.phase = "computed"
    /\ calc.score = 901
    /\ calc.tier = "Diamond"

(***************************************************************************)
(* Properties of a request's vote counters                                 *)
(***************************************************************************)
\* the oracles whose response record for the request holds the vote v
ResponsesWith(rk, v) ==
    {o \in OracleKeys : responses[rk][o].init /\ responses[rk][o].verified = v}

\* C33: for every request, confirmations + rejections is the number of keys
\* in responded_oracles, confirmations is the number of its response records
\* with verified = true and rejections the number with verified = false
C33_CountersMatchRecords ==
    \A rk \in RequestKeys :
        /\ requests[rk].confirmations + requests[rk].rejections =
               Len(requests[rk].responded_oracles)
        /\ requests[rk].confirmations = Cardinality(ResponsesWith(rk, TRUE))
        /\ requests[rk].rejections = Cardinality(ResponsesWith(rk, FALSE))

\* a request holds votes both ways
C33_Witness ==
    \E rk \in MainRequests :
        /\ requests[rk].confirmations >= 1
        /\ requests[rk].rejections >= 2
        /\ Len(requests[rk].responded_oracles) = 3

(***************************************************************************)
(* Properties of the pool's total                                          *)
(***************************************************************************)
RECURSIVE SumStaked(_, _)
\* the sum of staked_amount over the stake accounts of the set
SumStaked(accounts, set) ==
    IF set = {} THEN 0
    ELSE LET s == CHOOSE x \in set : TRUE
         IN  accounts[s].staked_amount + SumStaked(accounts, set \ {s})

\* C34: the pool's total_staked is the sum of staked_amount over all stake
\* accounts
C34_TotalIsSum == pool.total_staked = SumStaked(stake_accounts, Stakers)

\* both stakers hold a stake after one of them was slashed and the other
\* completed an unstake
C34_Witness ==
    /\ pool.total_staked > 0
    /\ \E s \in Stakers : stake_accounts[s].slash_count > 0
    /\ outcome.op = "complete_unstake"
    /\ outcome.err = "Ok"
    /\ stake_accounts[outcome.account].slash_count = 0

(***************************************************************************)
(* Properties of a pending unstake request                                 *)
(***************************************************************************)
\* C35 as claimed: a stake account with a pending unstake request
\* (unstake_requested_at # 0) has unstake_amount <= staked_amount.
C35_UnstakeWithinStake ==
    \A s \in Stakers :
        stake_accounts[s].unstake_requested_at # 0
            => stake_accounts[s].unstake_amount <= stake_accounts[s].staked_amount

\* a slash has just taken the stake of an account below its pending
\* unstake_amount
C35_SlashedBelowRequest ==
    /\ outcome.op = "slash"
    /\ outcome.err = "Ok"
    /\ stake_accounts[outcome.account].unstake_requested_at # 0
    /\ stake_accounts[outcome.account].unstake_amount >
           stake_accounts[outcome.account].staked_amount

(***************************************************************************)
(* Properties of the vault's balance                                       *)
(***************************************************************************)
\* C36 as claimed: the vault's balance is at least the pool's total_staked.
C36_VaultCoversStake == lamports[PoolVault] >= pool.total_staked

\* a reward has just been paid out of the vault, which now holds less than
\* the stakers' principal
C36_RewardPaidFromPrincipal ==
    /\ outcome.op = "claim_rewards"
    /\ outcome.err = "Ok"
    /\ lamports[PoolVault] < pool.total_staked

\* a staker's complete_unstake, due after the cooldown, has just failed
\* because the vault holds less than the amount
C36_WithdrawalFailed ==
    /\ outcome.op = "complete_unstake"
    /\ outcome.err = "ProgramFailedToComplete"
    /\ lamports[PoolVault] < stake_accounts[outcome.account].unstake_amount
    /\ stake_accounts[outcome.account].unstake_amount <=
           stake_accounts[outcome.account].staked_amount

(***************************************************************************)
(* Properties of a change of the reward rate                               *)
(***************************************************************************)
\* what the accumulator becomes when the pool p is updated now
AccumulatorNow(p) == update_pool_rewards(p, clock).acc_reward_per_share

\* C37 as claimed: an update_pool_config call does not change the reward
\* accrued for the time between last_reward_distribution and the call: the
\* accumulator an update of the pool yields at that time is the same before
\* and after the call.
C37_RateChangeNotRetroactive ==
    [][outcome'.op = "update_pool_config" => AccumulatorNow(pool') = AccumulatorNow(pool)]_vars

\* the rate has just been changed while an interval with stake in the pool
\* was not yet accrued, and the interval is now worth another reward
C37_RetroactiveReached ==
    /\ outcome.op = "update_pool_config"
    /\ outcome.err = "Ok"
    /\ pool.total_staked > 0
    /\ clock > pool.last_reward_distribution
    /\ \E r \in {1000, 2000} \ {pool.reward_rate_bps} :
          AccumulatorNow([pool EXCEPT !.reward_rate_bps = r]) # AccumulatorNow(pool)

(***************************************************************************)
(* Properties of the identity a finalize acts on                           *)
(***************************************************************************)
\* C38 as claimed: a successful finalize_verification with result true sets
\* the bit of the request's verification_type on the identity recorded in
\* the request, and changes the bitmap of no other identity.
C38_BitOnRequestIdentity ==
    [][(last'.op = "finalize_verification" /\ last'.err = "Ok"
           /\ requests'[last'.request].result = "SomeTrue")
          => LET request == requests[last'.request] IN
             /\ request.verification_type \in verification_bitmap'[request.identity]
             /\ \A i \in Identities \ {request.identity} :
                    verification_bitmap'[i] = verification_bitmap[i]]_vars

\* a finalize of a request about one identity has just set the bit of
\* another identity, and the request's own identity has none
C38_OtherIdentityVerified ==
    /\ last.op = "finalize_verification"
    /\ last.err = "Ok"
    /\ requests[last.request].result = "SomeTrue"
    /\ verification_bitmap[requests[last.request].identity] = {}
    /\ \E i \in Identities \ {requests[last.request].identity} :
          requests[last.request].verification_type \in verification_bitmap[i]

(***************************************************************************)
(* Properties of an oracle node that is not Active                         *)
(***************************************************************************)
\* the node account exists and its status is Inactive or Slashed
Retired(o) == oracle_nodes[o].init /\ oracle_nodes[o].status # "Active"

\* C39: a node that is Inactive or Slashed is not Active after any step: a
\* register_oracle for its authority fails and changes nothing, and every
\* vote of that oracle on an existing request is refused
C39_NeverActiveAgain ==
    [][\A o \in OracleKeys :
          Retired(o) =>
              /\ oracle_nodes'[o].init
              /\ oracle_nodes'[o].status # "Active"
              /\ register_oracle(St, o).err = "AccountAlreadyInUse"
              /\ register_oracle(St, o).st = St
              /\ \A rk \in RequestKeys, v \in BOOLEAN :
                     requests[rk].init =>
                         /\ submit_verification(St, o, rk, v, clock).err # "Ok"
                         /\ submit_verification(St, o, rk, v, clock).st = St]_vars

\* a deregistered oracle has just tried to register again and was refused
C39_Witness ==
    /\ last.op = "register_oracle"
    /\ last.err = "AccountAlreadyInUse"
    /\ oracle_nodes[last.oracle].status = "Inactive"
    /\ oracle_nodes[last.oracle].slash_count = 0

\* a Slashed oracle has just been refused a vote
C39_SlashedRefused ==
    /\ last.op = "submit_verification"
    /\ last.err = "OracleNotActive"
    /\ oracle_nodes[last.oracle].status = "Slashed"

(***************************************************************************)
(* Properties of the request of an (identity, verification type) pair      *)
(***************************************************************************)
ExistingRequests == {rk \in RequestKeys : requests[rk].init}

\* C40: a request_verification for a pair that has a request fails at the
\* init constraint whatever the request's status, and changes nothing: no
\* fee is charged and the request keeps its votes, deadline and result; a
\* request account is never removed or created again, only its status,
\* counters, responded oracles and result change, and the fee vault only
\* receives a fee when a request for a pair that had none is created
C40_OneRequestPerPair ==
    [][/\ \A rk \in ExistingRequests :
             /\ request_verification(St, rk[1], rk[2], clock).err = "AccountAlreadyInUse"
             /\ request_verification(St, rk[1], rk[2], clock).st = St
             /\ requests'[rk].init
             /\ requests'[rk].identity = requests[rk].identity
             /\ requests'[rk].verification_type = requests[rk].verification_type
             /\ requests'[rk].deadline = requests[rk].deadline
             /\ requests'[rk].confirmations >= requests[rk].confirmations
             /\ requests'[rk].rejections >= requests[rk].rejections
             /\ Len(requests'[rk].responded_oracles) >= Len(requests[rk].responded_oracles)
             /\ requests[rk].result # "None" => requests'[rk].result = requests[rk].result
       /\ fee_vault' # fee_vault =>
             /\ last'.op = "request_verification"
             /\ last'.err = "Ok"
             /\ last'.request \notin ExistingRequests
             /\ fee_vault' = fee_vault + config.verification_fee]_vars

\* a second request for a pair whose request was Rejected has just been
\* refused, with one fee in the vault
C40_Witness ==
    /\ last.op = "request_verification"
    /\ last.err = "AccountAlreadyInUse"
    /\ requests[last.request].status = "Rejected"
    /\ fee_vault = config.verification_fee
    /\ fee_vault > 0

\* a second request for a pair whose request has Expired has just been
\* refused
C40_ExpiredRefused ==
    /\ last.op = "request_verification"
    /\ last.err = "AccountAlreadyInUse"
    /\ requests[last.request].status = "Expired"

====
